---- MODULE Spec2Model ----
(***************************************************************************)
(* Task dispatch and admission core of the bot: the credit ledger          *)
(* (PostgreSQL transactions), the Redis task queue with its per-user and   *)
(* GPU admission, the queue worker and the cancel handler.                 *)
(*                                                                         *)
(* The specifications share the variables:                                 *)
(*   SpecLedger     the ledger's transactions, statement by statement,     *)
(*                  under PostgreSQL READ COMMITTED row locks and the      *)
(*                  unique index uq_credit_ledger_reason_reference;        *)
(*   Spec           admission, queue, worker and cancel, one Redis command *)
(*                  or one database transaction per step;                  *)
(*   SpecPayment    the three entry points that credit a payment;          *)
(*   SpecReconcile  the periodic reconciler of pending payments;           *)
(*   SpecGpu        the workers with a crash and the expiry of GPU keys;   *)
(*   SpecSweep      SpecGpu with the sweep of stale GPU slots running;     *)
(*   SpecCancel     cancel requests of one user handled concurrently;      *)
(*   SpecAlbum      the photos of an album and their delayed flush tasks.  *)
(***************************************************************************)
EXTENDS Integers, Sequences, FiniteSets, Bags, TLC

(***************************************************************************)
(* Bounds of the model.                                                    *)
(***************************************************************************)
NumUsers == 2
NumTxns == 4
NumTasks == 2
NumWorkers == 2
MaxCancels == 1
MaxExpiries == 1
MaxStoreErrors == 1
NumPayCalls == 2
MaxCrashes == 1
MaxMarkerExpiries == 1
NumPhotos == 2
MaxAlbumLockExpiries == 1
\* settings.MAX_QUEUED_TASKS_PER_USER and settings.MAX_GLOBAL_QUEUE_SIZE are read from the
\* environment (defaults 3 and 500); the model runs a deployment configured this small
MAX_QUEUED_TASKS_PER_USER == 1
MAX_GLOBAL_QUEUE_SIZE == 1
\* reconcile_pending_payments(limit=50): the model runs the loop with a limit this small
RECONCILE_LIMIT == 1

(***************************************************************************)
(* Program constants.                                                      *)
(***************************************************************************)
WELCOME_CREDITS == 11
REFERRAL_CREDITS == 11
COST == 19
PACKAGE_CREDITS == 100
PACKAGE_RUB == 100
MAX_GPU_JOBS == 1

Users == 1..NumUsers
Txns == 1..NumTxns
RequestIds == {"r1", "r2"}
PaymentIds == {"p1"}
NoUser == 0
Tasks == 1..NumTasks
Workers == 1..NumWorkers
NoTask == 0
YooKassaIds == {"y1", "y2"}
PayCalls == 1..NumPayCalls
Photos == 1..NumPhotos
\* settings.ADMIN_IDS: the last user is the administrator
ADMIN_IDS == {NumUsers}

(***************************************************************************)
(* The relational store.  balance[u] is users.balance of the committed row *)
(* (dbUsers: the committed rows of users), ledger the committed rows of    *)
(* credit_ledger as a bag: the unique index is enforced by Commit, not by  *)
(* the representation.                                                     *)
(***************************************************************************)
VARIABLES dbUsers, balance, ledger, txn

(***************************************************************************)
(* The key/value store.                                                    *)
(*   task_queue          the list task_queue                               *)
(*   task[t]             the status field of task:{t} ("none": no record)  *)
(*   user_queue_count[u] user_queue_count:{u} (0: no key)                  *)
(*   active_gen[u]       active_gen:{u} (NoTask: no key)                   *)
(*   gpu_active_jobs     gpu:active_jobs                                   *)
(*   gpu_job             the tasks with a gpu:job:{t} marker               *)
(* and what left the system: delivered, the tasks whose result was sent.   *)
(* cp_cancelled[t] records where the worker of t was when                  *)
(* cancel_processing_task(t) returned True: "backend" in the backend call, *)
(* "processing" elsewhere, "no" if it never did.  pushed is the sequence of *)
(* the ids in the order of their RPUSH.                                    *)
(* The processes: adm[t] the handler admitting request t, wrk[w] worker w, *)
(* can[u] the cancel handler of user u (in SpecCancel: can[c] the c-th     *)
(* cancel handler, at work for can[c].user), owner[t] the user who sent    *)
(* request t (the telegram_id of its payload; NoUser before it arrives).   *)
(* budget counts the cancel requests, lock expiries and store errors still *)
(* to come, and the worker crashes and the expiries (ttl) of a GPU marker  *)
(* or of an album's process lock (none of these in Spec).                  *)
(* wrk[w].slot records how acquire_gpu_slot let the worker through:        *)
(* "held" with the counter incremented, "fail_open" after a store error.   *)
(*                                                                         *)
(* Modelled: the image job (_enqueue_generation, _process_image_task).     *)
(* Left out: the expiry of task records, and the stale-job sweeper of      *)
(* cleanup_service, which the service never starts.  Worker crashes and    *)
(* the expiry of GPU markers happen in SpecGpu only.                       *)
(***************************************************************************)
VARIABLES task_queue, task, user_queue_count, active_gen, gpu_active_jobs, gpu_job,
          delivered, cp_cancelled, pushed, adm, wrk, can, owner, budget

storeVars == <<task_queue, task, user_queue_count, active_gen, gpu_active_jobs, gpu_job>>
procVars == <<delivered, cp_cancelled, pushed, adm, wrk, can, owner, budget>>

Owner(t) == owner[t]

dbVars == <<dbUsers, balance, ledger>>

(***************************************************************************)
(* The payments table and the calls that process a payment.                *)
(*   payments[p]  the status of the committed row with yookassa_payment_id *)
(*                p ("none": no row)                                       *)
(*   pay[c]       call c of process_yookassa_webhook, of                   *)
(*                confirm_payment_and_process or of one turn of the loop   *)
(*                of reconcile_pending_payments: its position, the payment *)
(*                id, what YooPayment.find_one returned, the status its    *)
(*                SELECT read, its open session and the value it returned  *)
(* and the periodic reconciler:                                            *)
(*   created      the payment ids in the order of their rows' created_at   *)
(*   yoo[p]       the status the provider holds for payment p              *)
(*   aged         the payments created more than older_than_seconds ago    *)
(*   recon        the loop of payment_reconcile: asleep or in a turn, the  *)
(*                rows its SELECT returned and are still to be visited,    *)
(*                and the payments that were before its cutoff_ts          *)
(* and of the periodic sweep of the GPU slots:                             *)
(*   sweep        cleanup_stale_gpu_jobs: not running, or between its      *)
(*                commands with the number of markers its SCAN found       *)
(* and of one album (media group) that a user sends:                       *)
(*   album        the user's state key, the buffer media_group:{u}:{g}     *)
(*                (file_ids, caption), its process lock, and for each      *)
(*                photo of the album the handler and the delayed flush     *)
(*                task that its arrival starts                             *)
(***************************************************************************)
VARIABLES payments, pay, created, yoo, aged, recon, sweep, album

reconVars == <<created, yoo, aged, recon, sweep, album>>
payVars == <<payments, pay, reconVars>>

LedgerRow(u, amount, reason, ref) ==
    [user_id |-> u, amount |-> amount, reason |-> reason, reference_id |-> ref]

\* reference ids, as the call sites build them: a prefix and an id.  A debit's is the
\* request id itself; a payment's is the provider's payment id, never a request id.
DebitRef(r) == <<"", r>>
RefundRef(r) == <<"refund_", r>>
WelcomeRef(u) == <<"welcome_", u>>
RefNewRef(u) == <<"ref_new_", u>>
RefInviteRef(u) == <<"ref_invite_", u>>
PaymentRef(p) == <<"payment_", p>>

RECURSIVE SumAmounts(_, _)
SumAmounts(rows, led) ==
    IF rows = {} THEN 0
    ELSE LET row == CHOOSE x \in rows : TRUE
         IN row.amount * CopiesIn(row, led) + SumAmounts(rows \ {row}, led)

\* SUM(amount) WHERE user_id = u
LedgerSum(led, u) ==
    SumAmounts({row \in BagToSet(led) : row.user_id = u}, led)

\* number of rows WHERE reason = .. AND reference_id = ..
RECURSIVE CountCopies(_, _)
CountCopies(rows, led) ==
    IF rows = {} THEN 0
    ELSE LET row == CHOOSE x \in rows : TRUE
         IN CopiesIn(row, led) + CountCopies(rows \ {row}, led)

RowCount(led, reason, ref) ==
    CountCopies({row \in BagToSet(led) :
                    row.reason = reason /\ row.reference_id = ref}, led)

(***************************************************************************)
(* A session (one open transaction): the rows it has locked, its           *)
(* uncommitted balance updates, its pending ledger inserts and the user    *)
(* row it has inserted.                                                    *)
(***************************************************************************)
EmptySession ==
    [locks |-> {}, dBal |-> [u \in Users |-> 0], rows |-> EmptyBag, newUser |-> NoUser]

\* ledger_service.record_credit_change: UPDATE users SET balance = balance + amount
\* (row lock until the end of the transaction), then session.add(CreditLedger(...))
RecordCreditChange(s, u, amount, reason, ref) ==
    [s EXCEPT !.locks = @ \cup {u},
              !.dBal[u] = @ + amount,
              !.rows = @ (+) SetToBag({LedgerRow(u, amount, reason, ref)})]

\* a credit_ledger table without the unique index
NoUniqueIndex(led, s) == FALSE

\* the unique index on (reason, reference_id), checked when the pending rows are flushed
UniqueViolation(led, s) ==
    \E row \in BagToSet(s.rows) :
        \/ CopiesIn(row, s.rows) > 1
        \/ RowCount(led, row.reason, row.reference_id) > 0
        \/ \E other \in BagToSet(s.rows) :
              other # row /\ other.reason = row.reason
                          /\ other.reference_id = row.reference_id

\* session.commit(): flush and commit; an IntegrityError rolls the whole transaction back
CommitOk(s) ==
    /\ ~UniqueViolation(ledger, s)
    /\ (s.newUser # NoUser => s.newUser \notin dbUsers)

\* as if the balance UPDATE were committed on its own, before the ledger insert
CommitEffectKeepsBalance(s) ==
    /\ balance' = [u \in Users |-> balance[u] + s.dBal[u]]
    /\ ledger' = IF CommitOk(s) THEN ledger (+) s.rows ELSE ledger
    /\ dbUsers' = IF s.newUser = NoUser \/ ~CommitOk(s) THEN dbUsers
                  ELSE dbUsers \cup {s.newUser}

CommitEffect(s) ==
    IF CommitOk(s)
    THEN /\ balance' = [u \in Users |-> balance[u] + s.dBal[u]]
         /\ ledger' = ledger (+) s.rows
         /\ dbUsers' = IF s.newUser = NoUser THEN dbUsers ELSE dbUsers \cup {s.newUser}
    ELSE UNCHANGED dbVars

IdleAdm == [pc |-> "new", outcome |-> "none"]
IdleWrk == [pc |-> "idle", task |-> NoTask, result |-> "none", slot |-> "none"]
IdleCan == [pc |-> "idle", user |-> NoUser, task |-> NoTask, removed |-> 0]

\* what YooPayment.find_one returned; value and currency are "none" when the answer
\* has no amount
NoVerify == [status |-> "none", value |-> "none", currency |-> "none"]

\* the amount of the "object" of an inbound notification; none outside the webhook
NoBody == [value |-> "none", currency |-> "none"]

IdlePay ==
    [pc |-> "idle", entry |-> "none", p |-> "none", caller |-> NoUser, body |-> NoBody,
     verified |-> NoVerify, seen |-> "none", lock |-> FALSE, sess |-> EmptySession,
     result |-> "none"]

\* the reconciler between two turns
IdleRecon == [pc |-> "sleep", batch |-> <<>>, cutoff |-> {}]

\* cleanup_stale_gpu_jobs is not running
IdleSweep == [pc |-> "idle", actual_count |-> 0]

\* a photo of the album that has not arrived: caption tells whether its message has
\* one; file_ids and has_caption are what its handler or its flush task read
IdlePhoto ==
    [pc |-> "new", caption |-> FALSE, file_ids |-> {}, has_caption |-> FALSE, task |-> NoTask]

\* no photo sent: no state key, no buffer, no process lock
IdleAlbum ==
    [state |-> "none", file_ids |-> {}, caption |-> FALSE, lock |-> FALSE,
     photo |-> [p \in Photos |-> IdlePhoto]]

\* no payment created, no call running
InitPayments ==
    /\ payments = [p \in YooKassaIds |-> "none"]
    /\ pay = [c \in PayCalls |-> IdlePay]
    /\ created = <<>>
    /\ yoo = [p \in YooKassaIds |-> "pending"]
    /\ aged = {}
    /\ recon = IdleRecon
    /\ sweep = IdleSweep
    /\ album = IdleAlbum

\* an empty store, no request received, the workers polling
InitKeys ==
    /\ task_queue = <<>>
    /\ task = [t \in Tasks |-> "none"]
    /\ user_queue_count = [u \in Users |-> 0]
    /\ active_gen = [u \in Users |-> NoTask]
    /\ gpu_active_jobs = 0
    /\ gpu_job = {}
    /\ delivered = {}
    /\ cp_cancelled = [t \in Tasks |-> "no"]
    /\ pushed = <<>>
    /\ adm = [t \in Tasks |-> IdleAdm]
    /\ wrk = [w \in Workers |-> IdleWrk]
    /\ can = [u \in Users |-> IdleCan]
    /\ owner = [t \in Tasks |-> NoUser]

InitStore ==
    /\ InitKeys
    /\ budget = [cancel |-> MaxCancels, expire |-> MaxExpiries, error |-> MaxStoreErrors,
                 crash |-> 0, ttl |-> 0]

(***************************************************************************)
(* Ledger transactions, one SQL statement per step.  txn[t] is the         *)
(* transaction of caller t: its statement position, its arguments, its     *)
(* session and the value it returned.                                      *)
(***************************************************************************)
IdleTxn ==
    [pc |-> "idle", kind |-> "none", u |-> NoUser, r |-> "none",
     referrer |-> NoUser, sess |-> EmptySession, result |-> "none"]

\* a row lock held by another open transaction makes the statement wait
RowLockedByOther(u, t) ==
    \E o \in Txns \ {t} : u \in txn[o].sess.locks

\* callers arrive in the order of their numbers
MayBegin(t) ==
    /\ txn[t].pc = "idle"
    /\ \A o \in Txns : o < t => txn[o].pc # "idle"

\* a request id is generated for one job of one user (new_request_id: uuid4)
SameOwner(u, r) ==
    \A o \in Txns : (txn[o].kind \in {"deduct", "refund"} /\ txn[o].r = r) => txn[o].u = u

\* deduct_credits_idempotent, "already deducted?": a row with this reference_id and amount < 0
ExistingDebit(led, ref) ==
    \E row \in BagToSet(led) : row.reference_id = ref /\ row.amount < 0

\* a balance check that lets every debit through
AnyBalanceSuffices(u, amount) == FALSE

\* deduct_credits_idempotent, the balance check under the row lock
HasInsufficientBalance(u, amount) ==
    u \notin dbUsers \/ balance[u] < amount

\* a SELECT without with_for_update() takes no lock
PlainSelectLocks(u) == {}

\* select(User).with_for_update(): the SELECT takes the row lock
ForUpdateLocks(u) == {u}

\* deduct_for_generation -> deduct_credits_idempotent: the idempotency SELECT
TxBeginDeduct(t, u, r) ==
    /\ MayBegin(t)
    /\ u \in dbUsers
    /\ SameOwner(u, r)
    /\ txn' = [txn EXCEPT ![t] =
                 IF ExistingDebit(ledger, DebitRef(r))
                 THEN [IdleTxn EXCEPT !.pc = "commit", !.kind = "deduct", !.u = u,
                                      !.r = r, !.result = "AlreadyDeducted"]
                 ELSE [IdleTxn EXCEPT !.pc = "select_for_update", !.kind = "deduct",
                                      !.u = u, !.r = r]]
    /\ UNCHANGED <<dbVars, storeVars, procVars, payVars>>

\* SELECT users ... FOR UPDATE, then "user is None or user.balance < amount"
TxSelectForUpdate(t) ==
    /\ txn[t].pc = "select_for_update"
    /\ ~RowLockedByOther(txn[t].u, t)
    /\ txn' = [txn EXCEPT ![t] =
                 IF HasInsufficientBalance(txn[t].u, COST)
                 THEN [@ EXCEPT !.sess.locks = @ \cup ForUpdateLocks(txn[t].u),
                                !.pc = "commit", !.result = "InsufficientBalance"]
                 ELSE [@ EXCEPT !.sess.locks = @ \cup ForUpdateLocks(txn[t].u),
                                !.pc = "record"]]
    /\ UNCHANGED <<dbVars, storeVars, procVars, payVars>>

\* refund_generation: record_credit_change(+cost, "refund", "refund_" + request_id)
\* (the call sites refund a request only after its charge was committed)
TxBeginRefund(t, u, r) ==
    /\ MayBegin(t)
    /\ u \in dbUsers
    /\ SameOwner(u, r)
    /\ ExistingDebit(ledger, DebitRef(r))
    /\ txn' = [txn EXCEPT ![t] =
                 [IdleTxn EXCEPT !.pc = "record", !.kind = "refund", !.u = u, !.r = r]]
    /\ UNCHANGED <<dbVars, storeVars, procVars, payVars>>

\* add_credits: SELECT the user, then record_credit_change(+credits, "payment", payment id)
TxBeginCredit(t, u, p) ==
    /\ MayBegin(t)
    /\ u \in dbUsers
    /\ txn' = [txn EXCEPT ![t] =
                 [IdleTxn EXCEPT !.pc = "record", !.kind = "payment", !.u = u, !.r = p]]
    /\ UNCHANGED <<dbVars, storeVars, procVars, payVars>>

TxAmount(kind) ==
    CASE kind = "deduct" -> 0 - COST
      [] kind = "refund" -> COST
      [] kind = "payment" -> PACKAGE_CREDITS

TxReason(kind) ==
    CASE kind = "deduct" -> "pro"
      [] kind = "refund" -> "refund"
      [] kind = "payment" -> "payment"

TxRef(kind, r) ==
    CASE kind = "deduct" -> DebitRef(r)
      [] kind = "refund" -> RefundRef(r)
      [] kind = "payment" -> PaymentRef(r)

\* the call of record_credit_change: the UPDATE waits for the row lock
TxRecord(t) ==
    /\ txn[t].pc = "record"
    /\ ~RowLockedByOther(txn[t].u, t)
    /\ txn' = [txn EXCEPT ![t] =
                 [@ EXCEPT !.sess = RecordCreditChange(@, txn[t].u, TxAmount(txn[t].kind),
                                        TxReason(txn[t].kind), TxRef(txn[t].kind, txn[t].r)),
                           !.pc = "commit",
                           !.result = IF txn[t].kind = "deduct" THEN "Deducted" ELSE "ok"]]
    /\ UNCHANGED <<dbVars, storeVars, procVars, payVars>>

\* get_or_create_user: SELECT by telegram_id finds nothing
TxBeginCreate(t, u, referrer) ==
    /\ MayBegin(t)
    /\ u \notin dbUsers
    /\ referrer # u
    /\ txn' = [txn EXCEPT ![t] =
                 [IdleTxn EXCEPT !.pc = "insert_user", !.kind = "create", !.u = u,
                                 !.referrer = referrer]]
    /\ UNCHANGED <<dbVars, storeVars, procVars, payVars>>

\* session.add(user); flush (waits for a concurrent insert of the same telegram_id);
\* welcome credits; _apply_referral_bonus credits the new user
TxInsertUser(t) ==
    LET u == txn[t].u
        welcomed == RecordCreditChange([txn[t].sess EXCEPT !.newUser = u], u,
                                       WELCOME_CREDITS, "welcome", WelcomeRef(u))
    IN /\ txn[t].pc = "insert_user"
       /\ \A o \in Txns \ {t} : txn[o].sess.newUser # u
       /\ txn' = [txn EXCEPT ![t] =
                    IF u \in dbUsers
                    THEN [@ EXCEPT !.pc = "done", !.result = "IntegrityError"]
                    ELSE IF txn[t].referrer = NoUser
                    THEN [@ EXCEPT !.sess = welcomed, !.pc = "commit", !.result = "ok"]
                    ELSE [@ EXCEPT !.sess = RecordCreditChange(welcomed, u, REFERRAL_CREDITS,
                                                               "referral", RefNewRef(u)),
                                   !.pc = "credit_referrer"]]
       /\ UNCHANGED <<dbVars, storeVars, procVars, payVars>>

\* _apply_referral_bonus: SELECT the referrer; if found, record_credit_change for them
TxCreditReferrer(t) ==
    /\ txn[t].pc = "credit_referrer"
    /\ IF txn[t].referrer \in dbUsers
       THEN /\ ~RowLockedByOther(txn[t].referrer, t)
            /\ txn' = [txn EXCEPT ![t] =
                         [@ EXCEPT !.sess = RecordCreditChange(@, txn[t].referrer,
                                        REFERRAL_CREDITS, "referral", RefInviteRef(txn[t].u)),
                                   !.pc = "commit", !.result = "ok"]]
       ELSE txn' = [txn EXCEPT ![t] = [@ EXCEPT !.pc = "commit", !.result = "ok"]]
    /\ UNCHANGED <<dbVars, storeVars, procVars, payVars>>

\* await session.commit(), or the rollback when the flush raises IntegrityError
TxCommit(t) ==
    /\ txn[t].pc = "commit"
    /\ CommitEffect(txn[t].sess)
    /\ txn' = [txn EXCEPT ![t] =
                 [@ EXCEPT !.pc = "done", !.sess = EmptySession,
                           !.result = IF CommitOk(txn[t].sess) THEN @ ELSE "IntegrityError"]]
    /\ UNCHANGED <<storeVars, procVars, payVars>>

(***************************************************************************)
(* SpecLedger: user 1 has made first contact (welcome credits only); the   *)
(* callers run deductions, refunds, payment credits and the creation of    *)
(* the other users concurrently.                                           *)
(***************************************************************************)
InitLedger ==
    /\ dbUsers = {1}
    /\ balance = [u \in Users |-> IF u = 1 THEN WELCOME_CREDITS ELSE 0]
    /\ ledger = SetToBag({LedgerRow(1, WELCOME_CREDITS, "welcome", WelcomeRef(1))})
    /\ txn = [t \in Txns |-> IdleTxn]
    /\ InitStore
    /\ InitPayments

NextLedger ==
    \E t \in Txns :
        \/ \E u \in Users, r \in RequestIds : TxBeginDeduct(t, u, r)
        \/ \E u \in Users, r \in RequestIds : TxBeginRefund(t, u, r)
        \/ \E u \in Users, p \in PaymentIds : TxBeginCredit(t, u, p)
        \/ \E u \in Users, referrer \in Users \cup {NoUser} : TxBeginCreate(t, u, referrer)
        \/ TxSelectForUpdate(t)
        \/ TxRecord(t)
        \/ TxInsertUser(t)
        \/ TxCreditReferrer(t)
        \/ TxCommit(t)

vars == <<dbUsers, balance, ledger, txn, task_queue, task, user_queue_count, active_gen,
          gpu_active_jobs, gpu_job, delivered, cp_cancelled, pushed, adm, wrk, can, owner, budget,
          payments, pay, created, yoo, aged, recon, sweep, album>>

SpecLedger == InitLedger /\ [][NextLedger]_vars

(***************************************************************************)
(* The job pipeline.  Each ledger operation of a handler is one committed  *)
(* transaction (deduct_for_generation and refund_generation open a session *)
(* and commit it); every store command is one step.                        *)
(***************************************************************************)
\* generation_service.deduct_for_generation: the pending debit of request r
DeductSession(u, r) == RecordCreditChange(EmptySession, u, -COST, "pro", DebitRef(r))

\* generation_service.refund_generation: the pending refund of request r
RefundSession(u, r) == RecordCreditChange(EmptySession, u, COST, "refund", RefundRef(r))

\* a refund that does not look at the admin flag
RefundAdminsToo(u, r) == CommitEffect(RefundSession(u, r))

\* admin_guard.refund_if_needed; ok tells whether the call returned (no IntegrityError)
RefundIfNeeded(u, r) ==
    IF u \in ADMIN_IDS THEN UNCHANGED dbVars ELSE CommitEffect(RefundSession(u, r))

RefundReturns(u, r) == u \in ADMIN_IDS \/ CommitOk(RefundSession(u, r))

\* LREM task_queue 1 t
RECURSIVE RemoveFirst(_, _)
RemoveFirst(q, t) ==
    IF q = <<>> THEN <<>>
    ELSE IF Head(q) = t THEN Tail(q)
    ELSE <<Head(q)>> \o RemoveFirst(Tail(q), t)

InQueue(t) == \E i \in 1..Len(task_queue) : task_queue[i] = t

\* the requests arrive in the order of their numbers
MayArrive(t) ==
    /\ adm[t].pc = "new"
    /\ \A o \in Tasks : o < t => adm[o].pc # "new"

\* _enqueue_generation for a request of user u: check_and_charge
AdmCharge(t, u) ==
    /\ MayArrive(t)
    /\ owner' = [owner EXCEPT ![t] = u]
    /\ IF u \in ADMIN_IDS \/ ExistingDebit(ledger, DebitRef(t))
       THEN /\ adm' = [adm EXCEPT ![t].pc = "lock"]
            /\ UNCHANGED dbVars
       ELSE IF HasInsufficientBalance(u, COST)
       THEN /\ adm' = [adm EXCEPT ![t] = [pc |-> "done", outcome |-> "InsufficientBalance"]]
            /\ UNCHANGED dbVars
       ELSE /\ CommitEffect(DeductSession(u, t))
            /\ adm' = [adm EXCEPT ![t] =
                          IF CommitOk(DeductSession(u, t))
                          THEN [pc |-> "lock", outcome |-> "none"]
                          ELSE [pc |-> "done", outcome |-> "IntegrityError"]]
    /\ UNCHANGED <<txn, payVars, storeVars, delivered, cp_cancelled, pushed, wrk, can, budget>>

\* redis_client.acquire_generation_lock: SET active_gen:{u} t NX EX ttl
SetNxLock(u, t) == active_gen[u] = NoTask

\* _enqueue_generation: acquire_generation_lock, then create_generation
AdmLock(t) ==
    LET u == Owner(t) IN
    /\ adm[t].pc = "lock"
    /\ IF SetNxLock(u, t)
       THEN /\ active_gen' = [active_gen EXCEPT ![u] = t]
            /\ adm' = [adm EXCEPT ![t].pc = "e_llen"]
       ELSE /\ adm' = [adm EXCEPT ![t] = [pc |-> "lock_refund", outcome |-> "AlreadyActive"]]
            /\ UNCHANGED active_gen
    /\ UNCHANGED <<dbVars, txn, payVars, task_queue, task, user_queue_count, gpu_active_jobs,
                   gpu_job, delivered, cp_cancelled, pushed, wrk, can, owner, budget>>

\* _enqueue_generation: refund_if_needed after a failed lock or a QueueLimitError
AdmRefund(t) ==
    LET u == Owner(t) IN
    /\ adm[t].pc \in {"lock_refund", "queue_refund"}
    /\ RefundIfNeeded(u, t)
    /\ adm' = [adm EXCEPT ![t] =
                  IF ~RefundReturns(u, t) THEN [pc |-> "done", outcome |-> "IntegrityError"]
                  ELSE IF @.pc = "lock_refund" THEN [@ EXCEPT !.pc = "done"]
                  ELSE [@ EXCEPT !.pc = "queue_release"]]
    /\ UNCHANGED <<txn, payVars, storeVars, delivered, cp_cancelled, pushed, wrk, can, owner,
                   budget>>

\* _enqueue_generation: release_generation_lock after a QueueLimitError
AdmRelease(t) ==
    /\ adm[t].pc = "queue_release"
    /\ active_gen' = [active_gen EXCEPT ![Owner(t)] = NoTask]
    /\ adm' = [adm EXCEPT ![t].pc = "done"]
    /\ UNCHANGED <<dbVars, txn, payVars, task_queue, task, user_queue_count, gpu_active_jobs,
                   gpu_job, delivered, cp_cancelled, pushed, wrk, can, owner, budget>>

\* enqueue_task: LLEN task_queue against the global limit
EnqLLen(t) ==
    /\ adm[t].pc = "e_llen"
    /\ adm' = [adm EXCEPT ![t] =
                  IF Len(task_queue) >= MAX_GLOBAL_QUEUE_SIZE
                  THEN [pc |-> "queue_refund", outcome |-> "GlobalQueueFull"]
                  ELSE [@ EXCEPT !.pc = "e_get"]]
    /\ UNCHANGED <<dbVars, txn, payVars, storeVars, delivered, cp_cancelled, pushed, wrk, can,
                   owner, budget>>

\* enqueue_task: _get_user_queue_count against the per-user limit
EnqGet(t) ==
    /\ adm[t].pc = "e_get"
    /\ adm' = [adm EXCEPT ![t] =
                  IF user_queue_count[Owner(t)] >= MAX_QUEUED_TASKS_PER_USER
                  THEN [pc |-> "queue_refund", outcome |-> "UserQueueFull"]
                  ELSE [@ EXCEPT !.pc = "e_incr"]]
    /\ UNCHANGED <<dbVars, txn, payVars, storeVars, delivered, cp_cancelled, pushed, wrk, can,
                   owner, budget>>

\* an enqueue_task whose increment is never checked against the limit
EnqIncrUnchecked(t) ==
    /\ adm[t].pc = "e_incr"
    /\ user_queue_count' = [user_queue_count EXCEPT ![Owner(t)] = @ + 1]
    /\ adm' = [adm EXCEPT ![t].pc = "e_set"]
    /\ UNCHANGED <<dbVars, txn, payVars, task_queue, task, active_gen, gpu_active_jobs, gpu_job,
                   delivered, cp_cancelled, pushed, wrk, can, owner, budget>>

\* enqueue_task: _incr_user_queue_count, and the check of the new count
EnqIncr(t) ==
    LET u == Owner(t) IN
    /\ adm[t].pc = "e_incr"
    /\ user_queue_count' = [user_queue_count EXCEPT ![u] = @ + 1]
    /\ adm' = [adm EXCEPT ![t].pc =
                  IF user_queue_count'[u] > MAX_QUEUED_TASKS_PER_USER
                  THEN "e_rollback" ELSE "e_set"]
    /\ UNCHANGED <<dbVars, txn, payVars, task_queue, task, active_gen, gpu_active_jobs, gpu_job,
                   delivered, cp_cancelled, pushed, wrk, can, owner, budget>>

\* enqueue_task: the rollback _decr_user_queue_count (DECR and GET in one pipeline)
EnqRollback(t) ==
    LET u == Owner(t) IN
    /\ adm[t].pc = "e_rollback"
    /\ user_queue_count' = [user_queue_count EXCEPT ![u] = @ - 1]
    /\ adm' = [adm EXCEPT ![t] =
                  IF user_queue_count'[u] <= 0 THEN [@ EXCEPT !.pc = "e_rollback_del"]
                  ELSE [pc |-> "queue_refund", outcome |-> "UserQueueFull"]]
    /\ UNCHANGED <<dbVars, txn, payVars, task_queue, task, active_gen, gpu_active_jobs, gpu_job,
                   delivered, cp_cancelled, pushed, wrk, can, owner, budget>>

\* _decr_user_queue_count: DEL of a counter read as <= 0
EnqRollbackDel(t) ==
    /\ adm[t].pc = "e_rollback_del"
    /\ user_queue_count' = [user_queue_count EXCEPT ![Owner(t)] = 0]
    /\ adm' = [adm EXCEPT ![t] = [pc |-> "queue_refund", outcome |-> "UserQueueFull"]]
    /\ UNCHANGED <<dbVars, txn, payVars, task_queue, task, active_gen, gpu_active_jobs, gpu_job,
                   delivered, cp_cancelled, pushed, wrk, can, owner, budget>>

\* enqueue_task: SET task:{t} with status queued
EnqSet(t) ==
    /\ adm[t].pc = "e_set"
    /\ task' = [task EXCEPT ![t] = "queued"]
    /\ adm' = [adm EXCEPT ![t].pc = "e_push"]
    /\ UNCHANGED <<dbVars, txn, payVars, task_queue, user_queue_count, active_gen,
                   gpu_active_jobs, gpu_job, delivered, cp_cancelled, pushed, wrk, can, owner,
                   budget>>

\* enqueue_task: RPUSH task_queue t
EnqPush(t) ==
    /\ adm[t].pc = "e_push"
    /\ task_queue' = Append(task_queue, t)
    /\ pushed' = Append(pushed, t)
    /\ adm' = [adm EXCEPT ![t] = [pc |-> "done", outcome |-> "Admitted"]]
    /\ UNCHANGED <<dbVars, txn, payVars, task, user_queue_count, active_gen, gpu_active_jobs,
                   gpu_job, delivered, cp_cancelled, wrk, can, owner, budget>>

\* enqueue_task: the SET of the record or the RPUSH raises a store error, which
\* _enqueue_generation answers with refund_if_needed and release_generation_lock
EnqStoreError(t) ==
    /\ adm[t].pc \in {"e_set", "e_push"}
    /\ budget.error > 0
    /\ budget' = [budget EXCEPT !.error = @ - 1]
    /\ adm' = [adm EXCEPT ![t] = [pc |-> "queue_refund", outcome |-> "StoreError"]]
    /\ UNCHANGED <<dbVars, txn, payVars, storeVars, delivered, cp_cancelled, pushed, wrk, can,
                   owner>>

\* the EX ttl of active_gen:{u} elapses
ExpireLock(u) ==
    /\ active_gen[u] # NoTask
    /\ budget.expire > 0
    /\ budget' = [budget EXCEPT !.expire = @ - 1]
    /\ active_gen' = [active_gen EXCEPT ![u] = NoTask]
    /\ UNCHANGED <<dbVars, txn, payVars, task_queue, task, user_queue_count, gpu_active_jobs,
                   gpu_job, delivered, cp_cancelled, pushed, adm, wrk, can, owner>>

\* dequeue_task: LPOP task_queue (of the polling workers, which are alike, the first)
WrkDequeue(w) ==
    /\ wrk[w].pc = "idle"
    /\ \A o \in Workers : o < w => wrk[o].pc # "idle"
    /\ task_queue # <<>>
    /\ task_queue' = Tail(task_queue)
    /\ wrk' = [wrk EXCEPT ![w] = [@ EXCEPT !.pc = "deq_decr", !.task = Head(task_queue)]]
    /\ UNCHANGED <<dbVars, txn, payVars, task, user_queue_count, active_gen, gpu_active_jobs,
                   gpu_job, delivered, cp_cancelled, pushed, adm, can, owner, budget>>

\* dequeue_task: the store raises at the LPOP (nothing is popped) or, after the LPOP, at
\* the GET of the task record; _worker_loop logs the exception, sleeps and polls again
WrkDequeueStoreError(w) ==
    /\ \/ wrk[w].pc = "deq_decr"
       \/ /\ wrk[w].pc = "idle"
          /\ \A o \in Workers : o < w => wrk[o].pc # "idle"
          /\ task_queue # <<>>
    /\ budget.error > 0
    /\ budget' = [budget EXCEPT !.error = @ - 1]
    /\ wrk' = [wrk EXCEPT ![w] = IdleWrk]
    /\ UNCHANGED <<dbVars, txn, payVars, storeVars, delivered, cp_cancelled, pushed, adm, can,
                   owner>>

\* dequeue_task: _decr_user_queue_count (DECR and GET in one pipeline)
WrkDeqDecr(w) ==
    LET u == Owner(wrk[w].task) IN
    /\ wrk[w].pc = "deq_decr"
    /\ user_queue_count' = [user_queue_count EXCEPT ![u] = @ - 1]
    /\ wrk' = [wrk EXCEPT ![w].pc = IF user_queue_count'[u] <= 0 THEN "deq_del" ELSE "check"]
    /\ UNCHANGED <<dbVars, txn, payVars, task_queue, task, active_gen, gpu_active_jobs, gpu_job,
                   delivered, cp_cancelled, pushed, adm, can, owner, budget>>

\* _decr_user_queue_count: DEL of a counter read as <= 0
WrkDeqDel(w) ==
    /\ wrk[w].pc = "deq_del"
    /\ user_queue_count' = [user_queue_count EXCEPT ![Owner(wrk[w].task)] = 0]
    /\ wrk' = [wrk EXCEPT ![w].pc = "check"]
    /\ UNCHANGED <<dbVars, txn, payVars, task_queue, task, active_gen, gpu_active_jobs, gpu_job,
                   delivered, cp_cancelled, pushed, adm, can, owner, budget>>

\* queue_worker._handle_refund: "credits system is disabled", nothing is written
HandleRefund(t) == UNCHANGED dbVars

\* _worker_loop: get_task_status, a task cancelled while queued is skipped
WrkCheck(w) ==
    /\ wrk[w].pc = "check"
    /\ IF task[wrk[w].task] = "cancelled" THEN HandleRefund(wrk[w].task)
       ELSE UNCHANGED dbVars
    /\ wrk' = [wrk EXCEPT ![w].pc =
                  IF task[wrk[w].task] = "cancelled" THEN "skip_release" ELSE "acquire"]
    /\ UNCHANGED <<txn, payVars, storeVars, delivered, cp_cancelled, pushed, adm, can, owner,
                   budget>>

\* _worker_loop: release_generation_lock of a skipped task, then the next iteration
WrkSkipRelease(w) ==
    /\ wrk[w].pc = "skip_release"
    /\ active_gen' = [active_gen EXCEPT ![Owner(wrk[w].task)] = NoTask]
    /\ wrk' = [wrk EXCEPT ![w] = IdleWrk]
    /\ UNCHANGED <<dbVars, txn, payVars, task_queue, task, user_queue_count, gpu_active_jobs,
                   gpu_job, delivered, cp_cancelled, pushed, adm, can, owner, budget>>

\* acquire_gpu_slot, the script: active < MAX_GPU_JOBS
SlotFree == gpu_active_jobs < MAX_GPU_JOBS

\* _worker_loop: acquire_gpu_slot answered by the store.  With a slot the worker goes on;
\* without one it notifies the user, sleeps and takes the next iteration of the loop.
WrkAcquire(w) ==
    /\ wrk[w].pc = "acquire"
    /\ IF SlotFree
       THEN /\ gpu_active_jobs' = gpu_active_jobs + 1
            /\ gpu_job' = gpu_job \cup {wrk[w].task}
            /\ wrk' = [wrk EXCEPT ![w] = [@ EXCEPT !.pc = "set_processing", !.slot = "held"]]
       ELSE /\ wrk' = [wrk EXCEPT ![w] = IdleWrk]
            /\ UNCHANGED <<gpu_active_jobs, gpu_job>>
    /\ UNCHANGED <<dbVars, txn, payVars, task_queue, task, user_queue_count, active_gen,
                   delivered, cp_cancelled, pushed, adm, can, owner, budget>>

\* acquire_gpu_slot: the store raises, "allow the task to proceed (fail-open)"
WrkAcquireStoreError(w) ==
    /\ wrk[w].pc = "acquire"
    /\ budget.error > 0
    /\ budget' = [budget EXCEPT !.error = @ - 1]
    /\ wrk' = [wrk EXCEPT ![w] = [@ EXCEPT !.pc = "set_processing", !.slot = "fail_open"]]
    /\ UNCHANGED <<dbVars, txn, payVars, storeVars, delivered, cp_cancelled, pushed, adm, can,
                   owner>>

\* _worker_loop: set_task_status(PROCESSING), a write whatever the stored status
WrkSetProcessing(w) ==
    /\ wrk[w].pc = "set_processing"
    /\ task' = [task EXCEPT ![wrk[w].task] = "processing"]
    /\ wrk' = [wrk EXCEPT ![w].pc = "checkpoint_a"]
    /\ UNCHANGED <<dbVars, txn, payVars, task_queue, user_queue_count, active_gen,
                   gpu_active_jobs, gpu_job, delivered, cp_cancelled, pushed, adm, can, owner,
                   budget>>

\* _worker_loop: set_task_status(PROCESSING) raises (the store fails at its GET or SET);
\* _process_task is not called, the finally block releases the GPU slot
WrkSetProcessingStoreError(w) ==
    /\ wrk[w].pc = "set_processing"
    /\ budget.error > 0
    /\ budget' = [budget EXCEPT !.error = @ - 1]
    /\ wrk' = [wrk EXCEPT ![w].pc = "release_gpu"]
    /\ UNCHANGED <<dbVars, txn, payVars, storeVars, delivered, cp_cancelled, pushed, adm, can,
                   owner>>

\* _process_image_task: cancel checkpoint A, before the backend call
WrkCheckpointA(w) ==
    /\ wrk[w].pc = "checkpoint_a"
    /\ IF task[wrk[w].task] = "cancelled" THEN HandleRefund(wrk[w].task)
       ELSE UNCHANGED dbVars
    /\ wrk' = [wrk EXCEPT ![w].pc =
                  IF task[wrk[w].task] = "cancelled" THEN "release_lock" ELSE "backend"]
    /\ UNCHANGED <<txn, payVars, storeVars, delivered, cp_cancelled, pushed, adm, can, owner,
                   budget>>

\* _process_image_task: the backend call raises (connection error, timeout, any other
\* exception), or it returns images or nothing and cancel checkpoint B follows
WrkBackend(w) ==
    /\ wrk[w].pc = "backend"
    /\ \E res \in {"ok", "empty", "error"} :
          wrk' = [wrk EXCEPT ![w] =
                     [@ EXCEPT !.result = IF task[wrk[w].task] = "cancelled" /\ res # "error"
                                           THEN "none" ELSE res,
                               !.pc = IF res = "error" THEN "set_failed"
                                      ELSE IF task[wrk[w].task] = "cancelled" THEN "release_lock"
                                      ELSE IF res = "ok" THEN "set_completed"
                                      ELSE "set_failed"]]
    /\ IF task[wrk[w].task] = "cancelled" THEN HandleRefund(wrk[w].task)
       ELSE UNCHANGED dbVars
    /\ UNCHANGED <<txn, payVars, storeVars, delivered, cp_cancelled, pushed, adm, can, owner,
                   budget>>

\* _process_image_task: set_task_status(COMPLETED) and _send_result
WrkSetCompleted(w) ==
    /\ wrk[w].pc = "set_completed"
    /\ task' = [task EXCEPT ![wrk[w].task] = "completed"]
    /\ delivered' = delivered \cup {wrk[w].task}
    /\ wrk' = [wrk EXCEPT ![w] = [@ EXCEPT !.pc = "release_lock", !.result = "none"]]
    /\ UNCHANGED <<dbVars, txn, payVars, task_queue, user_queue_count, active_gen,
                   gpu_active_jobs, gpu_job, cp_cancelled, pushed, adm, can, owner, budget>>

\* _process_image_task: set_task_status(FAILED); the exception handlers then call
\* _handle_refund, the empty-result branch does not
WrkSetFailed(w) ==
    /\ wrk[w].pc = "set_failed"
    /\ task' = [task EXCEPT ![wrk[w].task] = "failed"]
    /\ IF wrk[w].result = "error" THEN HandleRefund(wrk[w].task) ELSE UNCHANGED dbVars
    /\ wrk' = [wrk EXCEPT ![w] = [@ EXCEPT !.pc = "release_lock", !.result = "none"]]
    /\ UNCHANGED <<txn, payVars, task_queue, user_queue_count, active_gen, gpu_active_jobs,
                   gpu_job, delivered, cp_cancelled, pushed, adm, can, owner, budget>>

\* _process_image_task, finally: release_generation_lock
WrkReleaseLock(w) ==
    /\ wrk[w].pc = "release_lock"
    /\ active_gen' = [active_gen EXCEPT ![Owner(wrk[w].task)] = NoTask]
    /\ wrk' = [wrk EXCEPT ![w].pc = "release_gpu"]
    /\ UNCHANGED <<dbVars, txn, payVars, task_queue, task, user_queue_count, gpu_active_jobs,
                   gpu_job, delivered, cp_cancelled, pushed, adm, can, owner, budget>>

\* _worker_loop, finally: release_gpu_slot, which does nothing without the job's marker
WrkReleaseGpu(w) ==
    /\ wrk[w].pc = "release_gpu"
    /\ IF wrk[w].task \in gpu_job
       THEN /\ gpu_active_jobs' = IF gpu_active_jobs > 0 THEN gpu_active_jobs - 1 ELSE 0
            /\ gpu_job' = gpu_job \ {wrk[w].task}
       ELSE UNCHANGED <<gpu_active_jobs, gpu_job>>
    /\ wrk' = [wrk EXCEPT ![w] = IdleWrk]
    /\ UNCHANGED <<dbVars, txn, payVars, task_queue, task, user_queue_count, active_gen,
                   delivered, cp_cancelled, pushed, adm, can, owner, budget>>

\* _do_cancel(telegram_id = u) run by handler c: get_active_generation; without an
\* active task the handler answers "no_task"
CanBegin(c, u) ==
    /\ can[c].pc = "idle"
    /\ budget.cancel > 0
    /\ budget' = [budget EXCEPT !.cancel = @ - 1]
    /\ can' = [can EXCEPT ![c] =
                  IF active_gen[u] = NoTask THEN IdleCan
                  ELSE [IdleCan EXCEPT !.pc = "ct_get", !.user = u, !.task = active_gen[u]]]
    /\ UNCHANGED <<dbVars, txn, payVars, storeVars, delivered, cp_cancelled, pushed, adm, wrk,
                   owner>>

\* a cancel request of user u, one at a time for each user
CanStart(u) == CanBegin(u, u)

\* cancel_task: GET task:{t}, only a queued task is cancelled here
CanGetQueued(u) ==
    /\ can[u].pc = "ct_get"
    /\ can' = [can EXCEPT ![u].pc = IF task[can[u].task] = "queued" THEN "ct_set" ELSE "cp_get"]
    /\ UNCHANGED <<dbVars, txn, payVars, storeVars, delivered, cp_cancelled, pushed, adm, wrk,
                   owner, budget>>

\* cancel_task: SET task:{t} with status cancelled
CanSetCancelled(u) ==
    /\ can[u].pc = "ct_set"
    /\ task' = [task EXCEPT ![can[u].task] = "cancelled"]
    /\ can' = [can EXCEPT ![u].pc = "ct_lrem"]
    /\ UNCHANGED <<dbVars, txn, payVars, task_queue, user_queue_count, active_gen,
                   gpu_active_jobs, gpu_job, delivered, cp_cancelled, pushed, adm, wrk, owner,
                   budget>>

\* cancel_task: LREM task_queue 1 t; removed is the number of ids it removed
CanLrem(u) ==
    /\ can[u].pc = "ct_lrem"
    /\ task_queue' = RemoveFirst(task_queue, can[u].task)
    /\ can' = [can EXCEPT ![u].pc = "ct_decr",
                          ![u].removed = Len(task_queue) - Len(task_queue')]
    /\ UNCHANGED <<dbVars, txn, payVars, task, user_queue_count, active_gen, gpu_active_jobs,
                   gpu_job, delivered, cp_cancelled, pushed, adm, wrk, owner, budget>>

\* a cancel_task that leaves the counter alone
CanDecrSkipped(u) ==
    /\ can[u].pc = "ct_decr"
    /\ can' = [can EXCEPT ![u].pc = "refund"]
    /\ UNCHANGED <<dbVars, txn, payVars, storeVars, delivered, cp_cancelled, pushed, adm, wrk,
                   owner, budget>>

\* cancel_task: _decr_user_queue_count (DECR and GET in one pipeline)
CanDecr(u) ==
    LET o == Owner(can[u].task) IN
    /\ can[u].pc = "ct_decr"
    /\ user_queue_count' = [user_queue_count EXCEPT ![o] = @ - 1]
    /\ can' = [can EXCEPT ![u].pc = IF user_queue_count'[o] <= 0 THEN "ct_del" ELSE "refund"]
    /\ UNCHANGED <<dbVars, txn, payVars, task_queue, task, active_gen, gpu_active_jobs, gpu_job,
                   delivered, cp_cancelled, pushed, adm, wrk, owner, budget>>

\* _decr_user_queue_count: DEL of a counter read as <= 0
CanDel(u) ==
    /\ can[u].pc = "ct_del"
    /\ user_queue_count' = [user_queue_count EXCEPT ![Owner(can[u].task)] = 0]
    /\ can' = [can EXCEPT ![u].pc = "refund"]
    /\ UNCHANGED <<dbVars, txn, payVars, task_queue, task, active_gen, gpu_active_jobs, gpu_job,
                   delivered, cp_cancelled, pushed, adm, wrk, owner, budget>>

\* _do_cancel: refund_if_needed for the task cancelled while queued; an IntegrityError
\* leaves the handler before the lock is released
CanRefund(u) ==
    LET t == can[u].task IN
    /\ can[u].pc = "refund"
    /\ RefundIfNeeded(Owner(t), t)
    /\ can' = [can EXCEPT ![u] =
                  IF RefundReturns(Owner(t), t) THEN [@ EXCEPT !.pc = "release_queued"]
                  ELSE IdleCan]
    /\ UNCHANGED <<txn, payVars, storeVars, delivered, cp_cancelled, pushed, adm, wrk, owner,
                   budget>>

\* the backend call of task t is in flight
InBackendCall(t) == \E w \in Workers : wrk[w].task = t /\ wrk[w].pc = "backend"

\* cancel_processing_task: GET task:{t}, only a processing task is cancelled here
CanGetProcessing(u) ==
    /\ can[u].pc = "cp_get"
    /\ can' = [can EXCEPT ![u].pc =
                  IF task[can[u].task] = "processing" THEN "cp_set" ELSE "release_noop"]
    /\ UNCHANGED <<dbVars, txn, payVars, storeVars, delivered, cp_cancelled, pushed, adm, wrk,
                   owner, budget>>

\* cancel_processing_task: SET task:{t} with status cancelled
CanSetCancelledProcessing(u) ==
    /\ can[u].pc = "cp_set"
    /\ task' = [task EXCEPT ![can[u].task] = "cancelled"]
    /\ cp_cancelled' = [cp_cancelled EXCEPT ![can[u].task] =
                           IF InBackendCall(can[u].task) THEN "backend" ELSE "processing"]
    /\ can' = [can EXCEPT ![u].pc = "release"]
    /\ UNCHANGED <<dbVars, txn, payVars, task_queue, user_queue_count, active_gen,
                   gpu_active_jobs, gpu_job, delivered, pushed, adm, wrk, owner, budget>>

\* _do_cancel: release_generation_lock, on each of its three ways out
CanRelease(u) ==
    /\ can[u].pc \in {"release", "release_queued", "release_noop"}
    /\ active_gen' = [active_gen EXCEPT ![can[u].user] = NoTask]
    /\ can' = [can EXCEPT ![u] = IdleCan]
    /\ UNCHANGED <<dbVars, txn, payVars, task_queue, task, user_queue_count, gpu_active_jobs,
                   gpu_job, delivered, cp_cancelled, pushed, adm, wrk, owner, budget>>

(***************************************************************************)
(* The service: the users are registered with their welcome credit, the    *)
(* paying user may have bought the 100-credit package, the store is empty. *)
(***************************************************************************)
Init ==
    /\ dbUsers = Users
    /\ \E paid \in SUBSET (Users \ ADMIN_IDS) :
          /\ balance = [u \in Users |->
                           WELCOME_CREDITS + (IF u \in paid THEN PACKAGE_CREDITS ELSE 0)]
          /\ ledger = SetToBag({LedgerRow(u, WELCOME_CREDITS, "welcome", WelcomeRef(u)) :
                                   u \in Users}
                               \cup {LedgerRow(u, PACKAGE_CREDITS, "payment", PaymentRef(u)) :
                                        u \in paid})
    /\ txn = [t \in Txns |-> IdleTxn]
    /\ InitStore
    /\ InitPayments

Next ==
    \/ \E t \in Tasks :
          \/ (\E u \in Users : AdmCharge(t, u)) \/ AdmLock(t) \/ AdmRefund(t) \/ AdmRelease(t)
          \/ EnqLLen(t) \/ EnqGet(t) \/ EnqIncr(t) \/ EnqRollback(t) \/ EnqRollbackDel(t)
          \/ EnqSet(t) \/ EnqPush(t) \/ EnqStoreError(t)
    \/ \E w \in Workers :
          \/ WrkDequeue(w) \/ WrkDequeueStoreError(w) \/ WrkDeqDecr(w) \/ WrkDeqDel(w)
          \/ WrkCheck(w) \/ WrkSkipRelease(w) \/ WrkAcquire(w) \/ WrkAcquireStoreError(w)
          \/ WrkSetProcessing(w) \/ WrkSetProcessingStoreError(w) \/ WrkCheckpointA(w)
          \/ WrkBackend(w) \/ WrkSetCompleted(w) \/ WrkSetFailed(w) \/ WrkReleaseLock(w)
          \/ WrkReleaseGpu(w)
    \/ \E u \in Users :
          \/ CanStart(u) \/ CanGetQueued(u) \/ CanSetCancelled(u) \/ CanLrem(u)
          \/ CanDecr(u) \/ CanDel(u) \/ CanRefund(u) \/ CanGetProcessing(u)
          \/ CanSetCancelledProcessing(u) \/ CanRelease(u)
          \/ ExpireLock(u)

Spec == Init /\ [][Next]_vars

(***************************************************************************)
(* Crashes and stale GPU slots.                                            *)
(***************************************************************************)
\* the worker process dies while it holds a task and is started again: what it held in
\* memory is gone, the store is as it was
WrkCrash(w) ==
    /\ wrk[w].pc # "idle"
    /\ budget.crash > 0
    /\ budget' = [budget EXCEPT !.crash = @ - 1]
    /\ wrk' = [wrk EXCEPT ![w] = IdleWrk]
    /\ UNCHANGED <<dbVars, txn, payVars, storeVars, delivered, cp_cancelled, pushed, adm, can,
                   owner>>

\* gpu:job:{t} expires, _GPU_JOB_TTL after acquire_gpu_slot set it
MarkerExpires(t) ==
    /\ t \in gpu_job
    /\ budget.ttl > 0
    /\ budget' = [budget EXCEPT !.ttl = @ - 1]
    /\ gpu_job' = gpu_job \ {t}
    /\ UNCHANGED <<dbVars, txn, payVars, task_queue, task, user_queue_count, active_gen,
                   gpu_active_jobs, delivered, cp_cancelled, pushed, adm, wrk, can, owner>>

\* the steps of worker w
WrkStep(w) ==
    \/ WrkDequeue(w) \/ WrkDeqDecr(w) \/ WrkDeqDel(w) \/ WrkCheck(w)
    \/ WrkAcquire(w) \/ WrkSetProcessing(w) \/ WrkCheckpointA(w) \/ WrkBackend(w)
    \/ WrkSetCompleted(w) \/ WrkSetFailed(w) \/ WrkReleaseLock(w) \/ WrkReleaseGpu(w)

(***************************************************************************)
(* SpecGpu: the service as lifespan starts it (the queue worker; no task   *)
(* runs cleanup_stale_gpu_jobs), with requests admitted and processed, no  *)
(* cancel request and no store error, one worker crash, one marker expiry  *)
(* and one lock expiry.  The worker loops are scheduled again and again.   *)
(***************************************************************************)
InitGpu ==
    /\ dbUsers = Users
    /\ balance = [u \in Users |-> WELCOME_CREDITS + PACKAGE_CREDITS]
    /\ ledger = SetToBag({LedgerRow(u, WELCOME_CREDITS, "welcome", WelcomeRef(u)) :
                             u \in Users}
                         \cup {LedgerRow(u, PACKAGE_CREDITS, "payment", PaymentRef(u)) :
                                  u \in Users})
    /\ txn = [t \in Txns |-> IdleTxn]
    /\ InitKeys
    /\ budget = [cancel |-> 0, expire |-> MaxExpiries, error |-> 0,
                 crash |-> MaxCrashes, ttl |-> MaxMarkerExpiries]
    /\ InitPayments

NextGpu ==
    \/ \E t \in Tasks :
          \/ (\E u \in Users : AdmCharge(t, u)) \/ AdmLock(t) \/ AdmRefund(t) \/ AdmRelease(t)
          \/ EnqLLen(t) \/ EnqGet(t) \/ EnqIncr(t) \/ EnqRollback(t) \/ EnqRollbackDel(t)
          \/ EnqSet(t) \/ EnqPush(t)
          \/ MarkerExpires(t)
    \/ \E w \in Workers : WrkStep(w) \/ WrkCrash(w)
    \/ \E u \in Users : ExpireLock(u)

SpecGpu == InitGpu /\ [][NextGpu]_vars /\ \A w \in Workers : WF_vars(WrkStep(w))

(***************************************************************************)
(* The sweep of the GPU slots (cleanup_service._cleanup_loop calling       *)
(* cleanup_stale_gpu_jobs): a SCAN of the markers, a GET of the counter    *)
(* and, when the two differ, a SET or DEL of the counter, three commands   *)
(* between which the workers' scripts run.                                 *)
(***************************************************************************)
\* cleanup_stale_gpu_jobs: SCAN gpu:job:*, actual_count = len(job_keys)
SweepScan ==
    /\ sweep.pc = "idle"
    /\ sweep' = [pc |-> "get", actual_count |-> Cardinality(gpu_job)]
    /\ UNCHANGED <<dbVars, txn, storeVars, procVars, payments, pay, created, yoo, aged, recon,
                   album>>

\* cleanup_stale_gpu_jobs: reported_count = get_active_gpu_jobs(), and the comparison
SweepGet ==
    /\ sweep.pc = "get"
    /\ sweep' = IF sweep.actual_count # gpu_active_jobs THEN [sweep EXCEPT !.pc = "fix"]
                 ELSE IdleSweep
    /\ UNCHANGED <<dbVars, txn, storeVars, procVars, payments, pay, created, yoo, aged, recon,
                   album>>

\* cleanup_stale_gpu_jobs: SET gpu:active_jobs actual_count, or DEL when it is 0
SweepFix ==
    /\ sweep.pc = "fix"
    /\ gpu_active_jobs' = sweep.actual_count
    /\ sweep' = IdleSweep
    /\ UNCHANGED <<dbVars, txn, task_queue, task, user_queue_count, active_gen, gpu_job,
                   procVars, payments, pay, created, yoo, aged, recon, album>>

(***************************************************************************)
(* SpecSweep: SpecGpu's service with the sweep running beside the workers. *)
(***************************************************************************)
NextSweep ==
    \/ NextGpu
    \/ SweepScan \/ SweepGet \/ SweepFix

SpecSweep == InitGpu /\ [][NextSweep]_vars

(***************************************************************************)
(* Albums.  photo_handler buffers each photo of a media group and starts a *)
(* task that, after a delay, takes the album's process lock, reads and     *)
(* deletes the buffer and, if a caption came with the photos, calls        *)
(* _enqueue_generation.  The album is of user AlbumUser.                   *)
(***************************************************************************)
AlbumUser == 1

\* the tasks that the flush tasks of the album submitted
AlbumTasks == {album.photo[p].task : p \in Photos} \ {NoTask}

\* photo_handler for photo p, up to the GET of add_media_group_item (taken as one step):
\* outside the generation flow a user with an active generation is turned away,
\* any other user is put into the flow
PhotoArrives(p, cap) ==
    /\ album.photo[p].pc = "new"
    /\ \A o \in Photos : o < p => album.photo[o].pc # "new"
    /\ album' =
          IF album.state # "waiting_for_generation" /\ active_gen[AlbumUser] # NoTask
          THEN [album EXCEPT !.photo[p].pc = "done"]
          ELSE [album EXCEPT !.state = "waiting_for_generation",
                             !.photo[p] = [IdlePhoto EXCEPT !.pc = "add_set", !.caption = cap,
                                                            !.file_ids = album.file_ids,
                                                            !.has_caption = album.caption]]
    /\ UNCHANGED <<dbVars, txn, storeVars, procVars, payments, pay, created, yoo, aged, recon,
                   sweep>>

\* add_media_group_item: the SET of the buffer with the photo appended, after which
\* photo_handler creates the flush task
AddMediaGroupItem(p) ==
    /\ album.photo[p].pc = "add_set"
    /\ album' = [album EXCEPT !.file_ids = album.photo[p].file_ids \cup {p},
                              !.caption = album.photo[p].has_caption \/ album.photo[p].caption,
                              !.photo[p].pc = "sleep"]
    /\ UNCHANGED <<dbVars, txn, storeVars, procVars, payments, pay, created, yoo, aged, recon,
                   sweep>>

\* _process_media_group_after_delay: acquire_media_group_process_lock, SET NX EX 120
FlushAcquire(p) ==
    /\ album.photo[p].pc = "sleep"
    /\ album' = IF album.lock THEN [album EXCEPT !.photo[p].pc = "done"]
                 ELSE [album EXCEPT !.lock = TRUE, !.photo[p].pc = "get"]
    /\ UNCHANGED <<dbVars, txn, storeVars, procVars, payments, pay, created, yoo, aged, recon,
                   sweep>>

\* _process_media_group_after_delay: get_media_group
FlushGet(p) ==
    /\ album.photo[p].pc = "get"
    /\ album' = [album EXCEPT !.photo[p].pc = "delete",
                              !.photo[p].file_ids = album.file_ids,
                              !.photo[p].has_caption = album.caption]
    /\ UNCHANGED <<dbVars, txn, storeVars, procVars, payments, pay, created, yoo, aged, recon,
                   sweep>>

\* _process_media_group_after_delay: delete_media_group; without file ids the task ends,
\* without a caption it asks for one and ends
FlushDelete(p) ==
    /\ album.photo[p].pc = "delete"
    /\ album' = [album EXCEPT !.file_ids = {}, !.caption = FALSE,
                              !.photo[p].pc =
                                 IF album.photo[p].file_ids # {} /\ album.photo[p].has_caption
                                 THEN "enqueue" ELSE "done"]
    /\ UNCHANGED <<dbVars, txn, storeVars, procVars, payments, pay, created, yoo, aged, recon,
                   sweep>>

\* _process_media_group_after_delay calls _enqueue_generation: new_request_id()
FlushEnqueue(p, t) ==
    /\ album.photo[p].pc = "enqueue"
    /\ adm[t].pc = "new" /\ t \notin AlbumTasks
    /\ \A o \in Tasks : o < t => o \in AlbumTasks
    /\ album' = [album EXCEPT !.photo[p].pc = "admission", !.photo[p].task = t]
    /\ UNCHANGED <<dbVars, txn, storeVars, procVars, payments, pay, created, yoo, aged, recon,
                   sweep>>

\* _enqueue_generation of a flush task: check_and_charge
AlbumCharge(t) == t \in AlbumTasks /\ AdmCharge(t, AlbumUser)

\* _enqueue_generation returns to the flush task: clear_user_state on every way out but
\* the failed lock (and the exception of check_and_charge)
FlushReturn(p) ==
    /\ album.photo[p].pc = "admission"
    /\ adm[album.photo[p].task].pc = "done"
    /\ album' = [album EXCEPT !.photo[p].pc = "done",
                              !.state =
                                 IF adm[album.photo[p].task].outcome
                                      \in {"AlreadyActive", "IntegrityError"}
                                 THEN @ ELSE "none"]
    /\ UNCHANGED <<dbVars, txn, storeVars, procVars, payments, pay, created, yoo, aged, recon,
                   sweep>>

\* the EX ttl of the album's process lock elapses
AlbumLockExpires ==
    /\ album.lock
    /\ budget.ttl > 0
    /\ budget' = [budget EXCEPT !.ttl = @ - 1]
    /\ album' = [album EXCEPT !.lock = FALSE]
    /\ UNCHANGED <<dbVars, txn, storeVars, delivered, cp_cancelled, pushed, adm, wrk, can, owner,
                   payments, pay, created, yoo, aged, recon, sweep>>

(***************************************************************************)
(* SpecAlbum: one user sends the photos of one album, with or without      *)
(* captions; the requests come from the album's flush tasks and the        *)
(* workers process them.  One expiry of the process lock and one of the    *)
(* active lock; no cancel request, no store error.                         *)
(***************************************************************************)
InitAlbum ==
    /\ dbUsers = Users
    /\ balance = [u \in Users |-> WELCOME_CREDITS + PACKAGE_CREDITS]
    /\ ledger = SetToBag({LedgerRow(u, WELCOME_CREDITS, "welcome", WelcomeRef(u)) :
                             u \in Users}
                         \cup {LedgerRow(u, PACKAGE_CREDITS, "payment", PaymentRef(u)) :
                                  u \in Users})
    /\ txn = [t \in Txns |-> IdleTxn]
    /\ InitKeys
    /\ budget = [cancel |-> 0, expire |-> MaxExpiries, error |-> 0,
                 crash |-> 0, ttl |-> MaxAlbumLockExpiries]
    /\ InitPayments

NextAlbum ==
    \/ \E p \in Photos :
          \/ (\E cap \in BOOLEAN : PhotoArrives(p, cap)) \/ AddMediaGroupItem(p)
          \/ FlushAcquire(p) \/ FlushGet(p) \/ FlushDelete(p)
          \/ (\E t \in Tasks : FlushEnqueue(p, t)) \/ FlushReturn(p)
    \/ AlbumLockExpires
    \/ \E t \in Tasks :
          \/ AlbumCharge(t) \/ AdmLock(t) \/ AdmRefund(t) \/ AdmRelease(t)
          \/ EnqLLen(t) \/ EnqGet(t) \/ EnqIncr(t) \/ EnqRollback(t) \/ EnqRollbackDel(t)
          \/ EnqSet(t) \/ EnqPush(t)
    \/ \E w \in Workers : WrkStep(w)
    \/ ExpireLock(AlbumUser)

SpecAlbum == InitAlbum /\ [][NextAlbum]_vars

(***************************************************************************)
(* SpecCancel: the cancel requests of one user handled concurrently (the   *)
(* webhook endpoint awaits process_update for each HTTP request, and       *)
(* Telegram delivers updates over several connections): handler c takes a  *)
(* request of any user.  Both users have paid; no store error, no expiry.  *)
(***************************************************************************)
MaxConcurrentCancels == 2

\* the handlers take their requests in the order of their numbers
MayBeginCancel(c) == \A o \in Users : o < c => can[o].pc # "idle"

InitCancel ==
    /\ dbUsers = Users
    /\ balance = [u \in Users |-> WELCOME_CREDITS + PACKAGE_CREDITS]
    /\ ledger = SetToBag({LedgerRow(u, WELCOME_CREDITS, "welcome", WelcomeRef(u)) :
                             u \in Users}
                         \cup {LedgerRow(u, PACKAGE_CREDITS, "payment", PaymentRef(u)) :
                                  u \in Users})
    /\ txn = [t \in Txns |-> IdleTxn]
    /\ InitKeys
    /\ budget = [cancel |-> MaxConcurrentCancels, expire |-> 0, error |-> 0,
                 crash |-> 0, ttl |-> 0]
    /\ InitPayments

NextCancel ==
    \/ \E t \in Tasks :
          \/ (\E u \in Users : AdmCharge(t, u)) \/ AdmLock(t) \/ AdmRefund(t) \/ AdmRelease(t)
          \/ EnqLLen(t) \/ EnqGet(t) \/ EnqIncr(t) \/ EnqRollback(t) \/ EnqRollbackDel(t)
          \/ EnqSet(t) \/ EnqPush(t)
    \/ \E w \in Workers : WrkStep(w) \/ WrkSkipRelease(w)
    \/ \E c \in Users :
          \/ (\E u \in Users : MayBeginCancel(c) /\ CanBegin(c, u))
          \/ CanGetQueued(c) \/ CanSetCancelled(c) \/ CanLrem(c)
          \/ CanDecr(c) \/ CanDel(c) \/ CanRefund(c) \/ CanGetProcessing(c)
          \/ CanSetCancelledProcessing(c) \/ CanRelease(c)

SpecCancel == InitCancel /\ [][NextCancel]_vars

(***************************************************************************)
(* Payments.  A payment is created pending by create_payment; the webhook, *)
(* the user's confirm button and the reconciler each verify it with the    *)
(* provider and then run _process_succeeded_payment, one transaction with  *)
(* one SQL statement per step.                                             *)
(***************************************************************************)
\* payments.user_id: both payments are of user 1
PayUser(p) == 1

\* what the provider may answer for amount.value and amount.currency
VerifiedValues == {"100.00", "100", "99.00"}
VerifiedCurrencies == {"RUB", "rub", "USD"}
VerifyResults ==
    [status : {"succeeded", "pending"}, value : VerifiedValues, currency : VerifiedCurrencies]
       \cup [status : {"succeeded", "pending"}, value : {"none"}, currency : {"none"}]

\* the amounts a notification may carry in its body
WebhookBodies == [value : {"100.00", "99.00"}, currency : {"RUB"}]

\* _decimal_amount: Decimal(str(value).strip()), in kopecks; NoDecimal for None
NoDecimal == -1
DecimalAmount(value) ==
    CASE value = "100.00" -> 10000
      [] value = "100" -> 10000
      [] value = "99.00" -> 9900
      [] value = "0" -> 0
      [] OTHER -> NoDecimal

\* _extract_amount_currency: str(currency).strip().upper()
UpperCurrency(cur) == IF cur = "rub" THEN "RUB" ELSE cur

\* Decimal(f"{payment.amount_rub}.00"), in kopecks
ExpectedAmount(p) == PACKAGE_RUB * 100

\* the amount of the payment_obj handed to _process_succeeded_payment: the webhook
\* overwrites the body's amount with the verified one if value and currency are both
\* present; confirm and the reconciler build it from the answer, "0" and "RUB" for
\* what is absent
PaymentObj(entry, body, verified) ==
    IF entry = "webhook"
    THEN IF verified.value # "none" /\ verified.currency # "none"
         THEN [value |-> verified.value, currency |-> verified.currency]
         ELSE body
    ELSE [value |-> IF verified.value # "none" THEN verified.value ELSE "0",
          currency |-> IF verified.currency # "none" THEN verified.currency ELSE "RUB"]

\* a check that takes every amount and currency
AnyAmountMatches(v, p) == TRUE

\* _process_succeeded_payment: the strict check of amount and currency
AmountMatches(v, p) ==
    /\ DecimalAmount(v.value) # NoDecimal
    /\ UpperCurrency(v.currency) = "RUB"
    /\ DecimalAmount(v.value) = ExpectedAmount(p)

\* a SELECT of the payment row without with_for_update()
PaymentRowUnlocked(c) == FALSE

\* the payment row lock of SELECT ... FOR UPDATE, held until the transaction ends
PaymentRowLock(c) == TRUE

PaymentRowLockedByOther(p, c) ==
    \E o \in PayCalls \ {c} : pay[o].p = p /\ pay[o].lock

UserRowLockedByOtherPay(u, c) ==
    \E o \in PayCalls \ {c} : u \in pay[o].sess.locks

\* payment.status = "succeeded" without the ledger row
PaySessionWithoutRow(p) == EmptySession

\* record_credit_change(user_id=payment.user_id, amount=payment.credits,
\*                      reason="payment", reference_id=yookassa_id)
PaySession(p) ==
    RecordCreditChange(EmptySession, PayUser(p), PACKAGE_CREDITS, "payment", PaymentRef(p))

PayDone(c, res) == [IdlePay EXCEPT !.pc = "done", !.entry = pay[c].entry, !.p = pay[c].p,
                                   !.caller = pay[c].caller, !.body = pay[c].body,
                                   !.verified = pay[c].verified, !.seen = pay[c].seen,
                                   !.result = res]

\* the calls start in the order of their numbers
MayBeginPay(c) ==
    /\ pay[c].pc = "idle"
    /\ \A o \in PayCalls : o < c => pay[o].pc # "idle"

\* create_payment: the provider's payment is stored as pending
PayCreate(p) ==
    /\ payments[p] = "none"
    /\ payments' = [payments EXCEPT ![p] = "pending"]
    /\ created' = Append(created, p)
    /\ UNCHANGED <<dbVars, txn, storeVars, procVars, pay, yoo, aged, recon,
                   sweep, album>>

\* process_yookassa_webhook: the event and status of the notification, whose object
\* carries the amount body
PayWebhook(c, p, event, body) ==
    /\ MayBeginPay(c)
    /\ pay' = [pay EXCEPT ![c] =
                 IF event # "payment.succeeded"
                 THEN [IdlePay EXCEPT !.pc = "done", !.entry = "webhook", !.p = p,
                                      !.body = body, !.result = "False"]
                 ELSE [IdlePay EXCEPT !.pc = "verify", !.entry = "webhook", !.p = p,
                                      !.body = body]]
    /\ UNCHANGED <<dbVars, txn, storeVars, procVars, payments, reconVars>>

\* an owner check that lets every caller through
AnyCallerOwns(p, u) == TRUE

\* get_payment_user_telegram_id(yookassa_id) is neither None nor another user's id
OwnedBy(p, u) == payments[p] # "none" /\ PayUser(p) = u

\* confirm_payment_and_process by user u
PayConfirm(c, u, p) ==
    /\ MayBeginPay(c)
    /\ pay' = [pay EXCEPT ![c] =
                 IF ~OwnedBy(p, u)
                 THEN [IdlePay EXCEPT !.pc = "done", !.entry = "confirm", !.p = p,
                                      !.caller = u, !.result = "False"]
                 ELSE [IdlePay EXCEPT !.pc = "verify", !.entry = "confirm", !.p = p,
                                      !.caller = u]]
    /\ UNCHANGED <<dbVars, txn, storeVars, procVars, payments, reconVars>>

\* reconcile_pending_payments: one payment of the SELECT ... WHERE status = 'pending'
PayReconcile(c, p) ==
    /\ MayBeginPay(c)
    /\ payments[p] = "pending"
    /\ pay' = [pay EXCEPT ![c] = [IdlePay EXCEPT !.pc = "verify", !.entry = "reconcile", !.p = p]]
    /\ UNCHANGED <<dbVars, txn, storeVars, procVars, payments, reconVars>>

\* YooPayment.find_one raises
PayVerifyError(c) ==
    /\ pay[c].pc = "verify"
    /\ pay' = [pay EXCEPT ![c] = PayDone(c, "False")]
    /\ UNCHANGED <<dbVars, txn, storeVars, procVars, payments, reconVars>>

\* YooPayment.find_one returns, and the check of its status
PayVerify(c) ==
    /\ pay[c].pc = "verify"
    /\ \E v \in VerifyResults :
          pay' = [pay EXCEPT ![c] =
                    IF v.status # "succeeded"
                    THEN [PayDone(c, "False") EXCEPT !.verified.status = v.status]
                    ELSE [@ EXCEPT !.pc = "select", !.verified = v]]
    /\ UNCHANGED <<dbVars, txn, storeVars, procVars, payments, reconVars>>

\* _process_succeeded_payment: SELECT the payment FOR UPDATE, then the checks of
\* its status and of the amount and currency
PaySelect(c) ==
    LET p == pay[c].p IN
    /\ pay[c].pc = "select"
    /\ (payments[p] # "none" /\ PaymentRowLock(c)) => ~PaymentRowLockedByOther(p, c)
    /\ pay' = [pay EXCEPT ![c] =
                 IF payments[p] = "none" THEN PayDone(c, "False")
                 ELSE IF payments[p] = "succeeded"
                 THEN [PayDone(c, "True") EXCEPT !.seen = "succeeded"]
                 ELSE IF ~AmountMatches(PaymentObj(pay[c].entry, pay[c].body, pay[c].verified), p)
                 THEN [PayDone(c, "False") EXCEPT !.seen = "pending"]
                 ELSE [@ EXCEPT !.pc = "ledger_check", !.seen = "pending",
                                !.lock = PaymentRowLock(c)]]
    /\ UNCHANGED <<dbVars, txn, storeVars, procVars, payments, reconVars>>

\* _process_succeeded_payment: the SELECT of a ledger row (payment, yookassa_id)
PayLedgerCheck(c) ==
    /\ pay[c].pc = "ledger_check"
    /\ pay' = [pay EXCEPT ![c].pc =
                 IF RowCount(ledger, "payment", PaymentRef(pay[c].p)) > 0
                 THEN "commit" ELSE "record"]
    /\ UNCHANGED <<dbVars, txn, storeVars, procVars, payments, reconVars>>

\* _process_succeeded_payment: payment.status = "succeeded", record_credit_change
PayRecord(c) ==
    /\ pay[c].pc = "record"
    /\ ~UserRowLockedByOtherPay(PayUser(pay[c].p), c)
    /\ pay' = [pay EXCEPT ![c].pc = "commit", ![c].sess = PaySession(pay[c].p)]
    /\ UNCHANGED <<dbVars, txn, storeVars, procVars, payments, reconVars>>

\* the end of "async with session.begin()": commit, or rollback on IntegrityError
PayCommit(c) ==
    /\ pay[c].pc = "commit"
    /\ CommitEffect(pay[c].sess)
    /\ payments' = IF CommitOk(pay[c].sess)
                   THEN [payments EXCEPT ![pay[c].p] = "succeeded"]
                   ELSE payments
    /\ pay' = [pay EXCEPT ![c] =
                 PayDone(c, IF CommitOk(pay[c].sess) THEN "True" ELSE "IntegrityError")]
    /\ UNCHANGED <<txn, storeVars, procVars, reconVars>>

\* the entry point returns; the next notification, click or reconciler turn
PayReturn(c) ==
    /\ pay[c].pc = "done"
    /\ pay' = [pay EXCEPT ![c] = IdlePay]
    /\ UNCHANGED <<dbVars, txn, storeVars, procVars, payments, reconVars>>

(***************************************************************************)
(* SpecPayment: every user has the welcome credits; payments are created   *)
(* and processed by concurrent, repeated calls of the three entry points.  *)
(***************************************************************************)
InitPayment ==
    /\ dbUsers = Users
    /\ balance = [u \in Users |-> WELCOME_CREDITS]
    /\ ledger = SetToBag({LedgerRow(u, WELCOME_CREDITS, "welcome", WelcomeRef(u)) : u \in Users})
    /\ txn = [t \in Txns |-> IdleTxn]
    /\ InitStore
    /\ InitPayments

NextPayment ==
    \/ \E p \in YooKassaIds : PayCreate(p)
    \/ \E c \in PayCalls :
          \/ \E p \in YooKassaIds, event \in {"payment.succeeded", "payment.canceled"},
                body \in WebhookBodies :
                PayWebhook(c, p, event, body)
          \/ \E u \in Users, p \in YooKassaIds : PayConfirm(c, u, p)
          \/ \E p \in YooKassaIds : PayReconcile(c, p)
          \/ PayVerifyError(c) \/ PayVerify(c) \/ PaySelect(c) \/ PayLedgerCheck(c)
          \/ PayRecord(c) \/ PayCommit(c) \/ PayReturn(c)

SpecPayment == InitPayment /\ [][NextPayment]_vars

(***************************************************************************)
(* The periodic reconciler (payment_reconcile._loop and                    *)
(* reconcile_pending_payments), with the provider and the clock it reads.  *)
(***************************************************************************)
\* the call slot in which the reconciler runs _process_succeeded_payment
ReconCall == 1

\* the user pays payment p at the provider
YooPays(p) ==
    /\ payments[p] # "none"
    /\ yoo[p] = "pending"
    /\ yoo' = [yoo EXCEPT ![p] = "succeeded"]
    /\ UNCHANGED <<dbVars, txn, storeVars, procVars, payments, pay, created, aged, recon,
                   sweep, album>>

\* time passes: the oldest payment that was younger than older_than_seconds no longer is
GrowOld(p) ==
    /\ \E i \in 1..Len(created) :
          /\ created[i] = p
          /\ \A j \in 1..(i - 1) : created[j] \in aged
    /\ p \notin aged
    /\ aged' = aged \cup {p}
    /\ UNCHANGED <<dbVars, txn, storeVars, procVars, payments, pay, created, yoo, recon,
                   sweep, album>>

\* SELECT ... WHERE status = 'pending' ORDER BY created_at ASC
PendingByCreatedAt == SelectSeq(created, LAMBDA p : payments[p] = "pending")

\* ... LIMIT limit
Limit(rows, limit) == SubSeq(rows, 1, IF Len(rows) < limit THEN Len(rows) ELSE limit)

\* the answer of YooPayment.find_one for a payment that create_payment created
YooAnswer(p) == [status |-> yoo[p], value |-> "100.00", currency |-> "RUB"]

\* reconcile_pending_payments: cutoff_ts and the SELECT of the pending payments
ReconSelect ==
    /\ recon.pc = "sleep"
    /\ recon' = [pc |-> "loop", batch |-> Limit(PendingByCreatedAt, RECONCILE_LIMIT),
                 cutoff |-> aged]
    /\ UNCHANGED <<dbVars, txn, storeVars, procVars, payments, pay, created, yoo, aged,
                   sweep, album>>

\* the loop body: a payment created after cutoff_ts is passed over
ReconSkip ==
    /\ recon.pc = "loop" /\ recon.batch # <<>>
    /\ pay[ReconCall].pc = "idle"
    /\ Head(recon.batch) \notin recon.cutoff
    /\ recon' = [recon EXCEPT !.batch = Tail(@)]
    /\ UNCHANGED <<dbVars, txn, storeVars, procVars, payments, pay, created, yoo, aged,
                   sweep, album>>

\* the loop body: YooPayment.find_one, and _process_succeeded_payment if it succeeded
ReconVerify ==
    LET p == Head(recon.batch) IN
    /\ recon.pc = "loop" /\ recon.batch # <<>>
    /\ pay[ReconCall].pc = "idle"
    /\ p \in recon.cutoff
    /\ recon' = [recon EXCEPT !.batch = Tail(@)]
    /\ pay' = IF YooAnswer(p).status # "succeeded" THEN pay
              ELSE [pay EXCEPT ![ReconCall] =
                      [IdlePay EXCEPT !.pc = "select", !.entry = "reconcile", !.p = p,
                                      !.verified = YooAnswer(p)]]
    /\ UNCHANGED <<dbVars, txn, storeVars, procVars, payments, created, yoo, aged,
                   sweep, album>>

\* the end of the turn: await asyncio.sleep(interval_seconds)
ReconSleep ==
    /\ recon.pc = "loop" /\ recon.batch = <<>>
    /\ pay[ReconCall].pc = "idle"
    /\ recon' = IdleRecon
    /\ UNCHANGED <<dbVars, txn, storeVars, procVars, payments, pay, created, yoo, aged,
                   sweep, album>>

\* the steps of the reconciler task
ReconStep ==
    \/ ReconSelect \/ ReconSkip \/ ReconVerify \/ ReconSleep
    \/ PaySelect(ReconCall) \/ PayLedgerCheck(ReconCall) \/ PayRecord(ReconCall)
    \/ PayCommit(ReconCall) \/ PayReturn(ReconCall)

NextReconcile ==
    \/ \E p \in YooKassaIds : PayCreate(p) \/ YooPays(p) \/ GrowOld(p)
    \/ ReconStep

(***************************************************************************)
(* SpecReconcile: payments are created, paid at the provider and grow old; *)
(* the reconciler is the only caller of _process_succeeded_payment (no     *)
(* notification arrives, nobody clicks) and, as long as the process lives, *)
(* its task is scheduled again and again.                                  *)
(***************************************************************************)
SpecReconcile == InitPayment /\ [][NextReconcile]_vars /\ WF_vars(ReconStep)

(***************************************************************************)
(* C1.  Refund completeness: once a task of a non-admin user is FAILED or  *)
(* CANCELLED and no worker or cancel handler is still working on it, the   *)
(* ledger holds exactly one row with reason refund and reference           *)
(* "refund_" + request id.                                                 *)
(***************************************************************************)
Settled(t) ==
    /\ \A w \in Workers : wrk[w].task # t
    /\ \A u \in Users : can[u].task # t

RefundCompleteness ==
    \A t \in Tasks :
        (/\ Owner(t) \in Users \ ADMIN_IDS
         /\ task[t] \in {"failed", "cancelled"}
         /\ Settled(t))
           => RowCount(ledger, "refund", RefundRef(t)) = 1

(***************************************************************************)
(* C5.  GPU cap: the number of tasks in PROCESSING is at most              *)
(* MAX_GPU_JOBS, so is the number of workers in the backend call, and a    *)
(* worker in the backend call holds a GPU slot, also when the store failed *)
(* during acquire_gpu_slot.                                                *)
(***************************************************************************)
Processing == {t \in Tasks : task[t] = "processing"}

InBackend == {w \in Workers : wrk[w].pc = "backend"}

GpuCap ==
    /\ Cardinality(Processing) <= MAX_GPU_JOBS
    /\ Cardinality(InBackend) <= MAX_GPU_JOBS
    /\ \A w \in InBackend : wrk[w].task \in gpu_job

(***************************************************************************)
(* C6.  At most one processing per user: no user has two task records      *)
(* with status PROCESSING.                                                 *)
(***************************************************************************)
OneProcessingPerUser ==
    \A u \in Users : Cardinality({t \in Processing : Owner(t) = u}) <= 1

(***************************************************************************)
(* C7.  One active job per user: at most one of a user's tasks is QUEUED   *)
(* or PROCESSING, also after a processing-cancel and after the lock TTL    *)
(* elapsed.                                                                *)
(***************************************************************************)
Active(u) == {t \in Tasks : Owner(t) = u /\ task[t] \in {"queued", "processing"}}

OneActiveJobPerUser ==
    \A u \in Users : Cardinality(Active(u)) <= 1

(***************************************************************************)
(* C8.  Status monotonicity: a task record's status only moves             *)
(* QUEUED -> PROCESSING or CANCELLED and PROCESSING -> COMPLETED, FAILED   *)
(* or CANCELLED; a COMPLETED, FAILED or CANCELLED status never changes.    *)
(***************************************************************************)
StatusDag(old, new) ==
    \/ old = "none" /\ new = "queued"
    \/ old = "queued" /\ new \in {"processing", "cancelled"}
    \/ old = "processing" /\ new \in {"completed", "failed", "cancelled"}

StatusMonotonicity ==
    [][\A t \in Tasks : task'[t] # task[t] => StatusDag(task[t], task'[t])]_vars

(***************************************************************************)
(* C9.  No task loss on GPU saturation: an admitted task that is still     *)
(* QUEUED is in task_queue or in the hands of a worker, so that it will be *)
(* processed once a slot frees.                                            *)
(***************************************************************************)
Pending(t) == InQueue(t) \/ \E w \in Workers : wrk[w].task = t

NoTaskLoss ==
    \A t \in Tasks :
        (adm[t].outcome = "Admitted" /\ task[t] = "queued") => Pending(t)

(***************************************************************************)
(* C10.  Global queue cap: the length of task_queue never exceeds          *)
(* MAX_GLOBAL_QUEUE_SIZE.                                                  *)
(***************************************************************************)
GlobalQueueCap ==
    Len(task_queue) <= MAX_GLOBAL_QUEUE_SIZE

(***************************************************************************)
(* C2.  Balance conservation: in every committed state, every user's       *)
(* balance is the sum of the amounts of the user's ledger rows (a user     *)
(* without a committed row has no ledger rows), also after a commit that   *)
(* failed on the unique index.                                             *)
(***************************************************************************)
BalanceConservation ==
    \A u \in Users : balance[u] = LedgerSum(ledger, u)

\* a debit or refund was rolled back at commit by the unique index, after its balance
\* UPDATE had run, while other transactions committed
BalanceConservationWitness ==
    /\ \E t \in Txns : /\ txn[t].kind \in {"deduct", "refund"}
                       /\ txn[t].pc = "done" /\ txn[t].result = "IntegrityError"
    /\ \E t \in Txns : txn[t].pc = "done" /\ txn[t].result \in {"ok", "Deducted"}

(***************************************************************************)
(* C3.  Idempotent debit: of the calls of deduct_for_generation with one   *)
(* reference id, exactly one performs the deduction (one debit row), the   *)
(* others report "already deducted"; none ends in an error, and none       *)
(* reports insufficient balance once the debit row of its reference id     *)
(* exists.                                                                 *)
(***************************************************************************)
DeductCalls(r) == {t \in Txns : txn[t].kind = "deduct" /\ txn[t].r = r}

IdempotentDebit ==
    \A r \in RequestIds :
        /\ RowCount(ledger, "pro", DebitRef(r)) <= 1
        /\ \A t \in DeductCalls(r) :
              /\ txn[t].result # "IntegrityError"
              /\ (txn[t].result = "InsufficientBalance" /\ txn[t].pc = "commit")
                    => ~ExistingDebit(ledger, DebitRef(r))
        /\ Cardinality({t \in DeductCalls(r) :
                            txn[t].pc = "done" /\ txn[t].result = "Deducted"})
              = RowCount(ledger, "pro", DebitRef(r))

(***************************************************************************)
(* C4.  No committed balance is negative, whatever the interleaving of     *)
(* debits, refunds and credits; a debit rejected for insufficient balance  *)
(* has written nothing.                                                    *)
(***************************************************************************)
BalanceNeverNegative ==
    /\ \A u \in Users : balance[u] >= 0
    /\ \A t \in Txns :
          txn[t].result = "InsufficientBalance"
             => /\ txn[t].sess.rows = EmptyBag
                /\ \A u \in Users : txn[t].sess.dBal[u] = 0

\* two debits with distinct reference ids on one user: one went through, one was rejected
BalanceNeverNegativeWitness ==
    \E t1, t2 \in Txns :
        /\ txn[t1].kind = "deduct" /\ txn[t2].kind = "deduct"
        /\ txn[t1].u = txn[t2].u /\ txn[t1].r # txn[t2].r
        /\ txn[t1].pc = "done" /\ txn[t1].result = "Deducted"
        /\ txn[t2].pc = "done" /\ txn[t2].result = "InsufficientBalance"
        /\ balance[txn[t1].u] < COST

RollingBack(u) == {t \in Tasks : Owner(t) = u /\ adm[t].pc = "e_rollback"}

Rejected(t) ==
    /\ adm[t].pc = "done"
    /\ adm[t].outcome \in {"AlreadyActive", "UserQueueFull", "GlobalQueueFull", "StoreError"}

OnlyRequestOfUser(t) == \A o \in Tasks \ {t} : owner[o] # owner[t]

Unwound(t) ==
    /\ task[t] = "none"
    /\ ~InQueue(t)
    /\ active_gen[Owner(t)] # t
    /\ Owner(t) \notin ADMIN_IDS =>
           RowCount(ledger, "refund", RefundRef(t)) = RowCount(ledger, "pro", DebitRef(t))
    /\ (OnlyRequestOfUser(t) /\ can[Owner(t)].pc = "idle") =>
           user_queue_count[Owner(t)] = 0

AdmissionUnwinding == \A t \in Tasks : Rejected(t) => Unwound(t)

(***************************************************************************)
(* C13  Insufficient balance rejection: when the balance of a non-admin is *)
(* below the job cost, admission returns InsufficientBalance and changes   *)
(* nothing: no ledger row, no active lock, no counter increment, no task   *)
(* record, no queue entry.                                                 *)
(***************************************************************************)
InsufficientBalanceRejection ==
    [][\A t \in Tasks :
          (/\ adm[t].pc = "new"
           /\ adm'[t].pc # "new"
           /\ owner'[t] \notin ADMIN_IDS
           /\ balance[owner'[t]] < COST)
          => /\ adm'[t] = [pc |-> "done", outcome |-> "InsufficientBalance"]
             /\ UNCHANGED <<dbVars, storeVars>>]_vars

\* a request was rejected for its balance while another request is in the queue
InsufficientBalanceWitness ==
    \E t \in Tasks :
        /\ adm[t].outcome = "InsufficientBalance"
        /\ Owner(t) \notin ADMIN_IDS
        /\ balance[Owner(t)] < COST
        /\ task_queue # <<>>

(***************************************************************************)
(* C14  Exactly-once payment credit: for every external payment id, under  *)
(* any interleaving and repetition of the webhook, the reconciler and the  *)
(* user's confirm, the payment goes from pending to succeeded at most once *)
(* (it never leaves succeeded), the ledger holds at most one row           *)
(* (payment, id), the balance has risen by the package credits once per    *)
(* succeeded payment, and a repeat returns success and no error.           *)
(***************************************************************************)
SucceededPayments(pays, u) ==
    {p \in YooKassaIds : PayUser(p) = u /\ pays[p] = "succeeded"}

ExactlyOncePaymentCredit ==
    [][/\ \A p \in YooKassaIds :
             /\ payments[p] = "succeeded" => payments'[p] = "succeeded"
             /\ RowCount(ledger', "payment", PaymentRef(p)) <= 1
       /\ \A u \in Users :
             balance'[u] = WELCOME_CREDITS
                           + PACKAGE_CREDITS * Cardinality(SucceededPayments(payments', u))
       /\ \A c \in PayCalls :
             pay'[c].pc = "done" =>
                 /\ pay'[c].result \in {"True", "False"}
                 /\ pay'[c].seen = "succeeded" => pay'[c].result = "True"]_vars

\* a payment credited by one entry point and repeated through another one
ExactlyOncePaymentCreditWitness ==
    \E c1, c2 \in PayCalls :
        /\ pay[c1].p = pay[c2].p
        /\ pay[c1].entry # pay[c2].entry
        /\ pay[c1].pc = "done" /\ pay[c1].seen = "pending" /\ pay[c1].result = "True"
        /\ pay[c2].pc = "done" /\ pay[c2].seen = "succeeded" /\ pay[c2].result = "True"
        /\ balance[PayUser(pay[c1].p)] = WELCOME_CREDITS + PACKAGE_CREDITS

(***************************************************************************)
(* C15  Payment fail-closed: on every entry point a payment ledger row is  *)
(* written and the payment marked succeeded only if the provider's verify  *)
(* call returned status succeeded and the amount equals the stored         *)
(* amount_rub exactly and the currency is RUB; a call that ends with a     *)
(* verify error, a non-succeeded status or a mismatch leaves the payment   *)
(* status and the ledger unchanged.                                        *)
(***************************************************************************)
\* the provider's amounts that denote the stored amount_rub, and its codes of the rouble
DenotesStoredAmount(value) == value \in {"100.00", "100"}
IsRouble(cur) == cur \in {"RUB", "rub"}

\* the amount is the one of the payment_obj that _process_succeeded_payment validates
CheckedAmount(c) == PaymentObj(pay[c].entry, pay[c].body, pay[c].verified)

VerifiedAndMatching(c) ==
    /\ pay[c].verified.status = "succeeded"
    /\ DenotesStoredAmount(CheckedAmount(c).value)
    /\ IsRouble(CheckedAmount(c).currency)

PaymentLedgerAtomicity ==
    \A p \in YooKassaIds :
        payments[p] = "succeeded" <=> RowCount(ledger, "payment", PaymentRef(p)) >= 1

\* one payment committed with its row while the transaction of another payment,
\* its status set and its row pending, has not committed yet
PaymentLedgerAtomicityWitness ==
    \E p \in YooKassaIds, c \in PayCalls :
        /\ payments[p] = "succeeded"
        /\ RowCount(ledger, "payment", PaymentRef(p)) = 1
        /\ pay[c].pc = "commit" /\ pay[c].p # p
        /\ payments[pay[c].p] = "pending"

(***************************************************************************)
(* C17  Processing-cancel discards the result: if cancel_processing_task   *)
(* returned True for a task while its backend call was in flight, then at  *)
(* the end of the call the worker observes CANCELLED and goes on to        *)
(* release the lock, no result is sent, and the status stays CANCELLED: it *)
(* is never set to COMPLETED or FAILED afterwards.                         *)
(***************************************************************************)
ProcessingCancelDiscards ==
    [][\A t \in Tasks :
          cp_cancelled[t] = "backend" =>
              /\ task'[t] = "cancelled"
              /\ t \notin delivered'
              /\ \A w \in Workers :
                    (wrk[w].task = t /\ wrk[w].pc = "backend" /\ wrk'[w].pc # "backend")
                    => wrk'[w].pc = "release_lock"]_vars

(***************************************************************************)
(* C18  Processing-cancel refund: after cancel_processing_task returned    *)
(* True for a task of a non-admin user, the worker writes the refund row   *)
(* of the request at its next checkpoint: once the worker has left the     *)
(* task, the ledger holds exactly one row (refund, refund_<request id>)    *)
(* and the balance is what it was before the charge.                       *)
(***************************************************************************)
ProcessingCancelRefund ==
    \A t \in Tasks :
        (/\ cp_cancelled[t] # "no"
         /\ Owner(t) \notin ADMIN_IDS
         /\ \A w \in Workers : wrk[w].task # t)
        => RowCount(ledger, "refund", RefundRef(t)) = 1

(***************************************************************************)
(* C19  Queued-cancel is synchronous: when the cancel action of a user     *)
(* returns after cancel_task returned True (the task was read as QUEUED),  *)
(* the id is not in task_queue, the status is CANCELLED, the refund row is *)
(* written and the user's active lock is released; and no step of the      *)
(* action changes the task record of another task, the order of the other  *)
(* ids in the queue or the GPU slots.                                      *)
(***************************************************************************)
QueuedCancelPath == {"ct_set", "ct_lrem", "ct_decr", "ct_del", "refund", "release_queued"}

QueuedCancelSynchronous ==
    [][\A u \in Users :
          LET t == can[u].task IN
          /\ (can[u].pc = "release_queued" /\ can'[u].pc = "idle") =>
                 /\ \A i \in 1..Len(task_queue') : task_queue'[i] # t
                 /\ task'[t] = "cancelled"
                 /\ Owner(t) \notin ADMIN_IDS => RowCount(ledger', "refund", RefundRef(t)) = 1
                 /\ active_gen'[u] = NoTask
          /\ (can[u].pc \in QueuedCancelPath /\ can'[u] # can[u]) =>
                 /\ \A o \in Tasks \ {t} : task'[o] = task[o]
                 /\ task_queue' \in {task_queue, RemoveFirst(task_queue, t)}
                 /\ UNCHANGED <<gpu_active_jobs, gpu_job>>]_vars

(***************************************************************************)
(* C20  Round trip: a successful enqueue of a task followed by the queued  *)
(* cancel of that task leaves user_queue_count:{user} at its value before  *)
(* the enqueue and the balance at its value before admission (one debit    *)
(* and one refund).  Stated for the return of a cancel whose LREM removed  *)
(* the id (the enqueue was complete and no worker had popped the task) and *)
(* whose task is the only request of its user, so that the values before   *)
(* are an absent counter and the credits the user started with.            *)
(***************************************************************************)
BalanceBeforeAdmission(u) ==
    WELCOME_CREDITS + PACKAGE_CREDITS * RowCount(ledger, "payment", PaymentRef(u))

EnqueueCancelRoundTrip ==
    [][\A u \in Users :
          LET t == can[u].task IN
          (/\ can[u].pc = "release_queued" /\ can'[u].pc = "idle"
           /\ can[u].removed = 1
           /\ OnlyRequestOfUser(t))
          => /\ user_queue_count'[Owner(t)] = 0
             /\ balance'[Owner(t)] = BalanceBeforeAdmission(Owner(t))
             /\ RowCount(ledger', "refund", RefundRef(t))
                  = RowCount(ledger', "pro", DebitRef(t))]_vars

\* a charged user's cancel is about to return: debit and refund are written, the id
\* was removed from the queue and the counter is back at its value
EnqueueCancelRoundTripWitness ==
    \E u \in Users \ ADMIN_IDS :
        /\ can[u].pc = "release_queued" /\ can[u].removed = 1
        /\ Owner(can[u].task) = u
        /\ OnlyRequestOfUser(can[u].task)
        /\ RowCount(ledger, "pro", DebitRef(can[u].task)) = 1
        /\ RowCount(ledger, "refund", RefundRef(can[u].task)) = 1
        /\ user_queue_count[u] = 0

(***************************************************************************)
(* C21  Queue/status correspondence: a task id is in task_queue if and     *)
(* only if its record exists with status QUEUED.  Stated for the tasks no  *)
(* handler is working on (admission has returned, no worker and no cancel  *)
(* handler holds the task), so that the steps between the write of the     *)
(* record and the push or pop of the id do not count.                      *)
(***************************************************************************)
QueueStatusCorrespondence ==
    \A t \in Tasks :
        (adm[t].pc = "done" /\ Settled(t)) => (InQueue(t) <=> task[t] = "queued")

(***************************************************************************)
(* C22  Cross-user FIFO: tasks enter PROCESSING in the order their ids     *)
(* were pushed to task_queue, and with the GPU slot saturated no task      *)
(* permanently overtakes an earlier-enqueued task of a different user.     *)
(* Stated as its weakest part: no task has started while a task of another *)
(* user that was pushed before it is still QUEUED, in no queue and held by *)
(* no worker or cancel handler, that is, will never start.                 *)
(***************************************************************************)
PushedBefore(o, t) ==
    \E i, j \in 1..Len(pushed) : i < j /\ pushed[i] = o /\ pushed[j] = t

Started(t) == task[t] \in {"processing", "completed", "failed"}

Overtaken(o) == task[o] = "queued" /\ ~InQueue(o) /\ Settled(o)

CrossUserFifo ==
    \A o, t \in Tasks :
        (PushedBefore(o, t) /\ Owner(o) # Owner(t) /\ Started(t)) => ~Overtaken(o)


(***************************************************************************)
(* C23  Reconciler liveness: a pending payment older than 10 minutes that  *)
(* the provider reports as succeeded, with the amount of its row, is       *)
(* eventually marked succeeded and credited by the periodic reconciler,    *)
(* however many never-paid pending payments are older than it.             *)
(***************************************************************************)
Reconcilable(p) == payments[p] = "pending" /\ p \in aged /\ yoo[p] = "succeeded"

Credited(p) == payments[p] = "succeeded" /\ RowCount(ledger, "payment", PaymentRef(p)) = 1

ReconcilerLiveness ==
    \A p \in YooKassaIds : Reconcilable(p) ~> Credited(p)

(***************************************************************************)
(* C24  User-initiated confirm is owner-only: a confirm request of a user  *)
(* who is not the payment's owner, or for a payment id without a row, is   *)
(* rejected at once (it returns False without asking the provider) and     *)
(* changes neither the payment's status nor a ledger row nor a balance; no *)
(* confirm call that is past the owner check belongs to another user.      *)
(***************************************************************************)
ForeignConfirm(c, pays) ==
    /\ pay[c].entry = "confirm"
    /\ (pays[pay[c].p] = "none" \/ pay[c].caller # PayUser(pay[c].p))

ConfirmOwnerOnly ==
    [][\A c \in PayCalls :
          /\ (pay[c].pc = "idle" /\ ForeignConfirm(c, payments)')
                => /\ pay'[c].pc = "done" /\ pay'[c].result = "False"
                   /\ UNCHANGED <<payments, ledger, balance>>
          /\ (pay[c].entry = "confirm" /\ pay[c].pc \notin {"idle", "done"})
                => (payments[pay[c].p] # "none" /\ pay[c].caller = PayUser(pay[c].p))
          /\ (pay[c].pc = "done" /\ ForeignConfirm(c, payments) /\ pay[c].result = "False")
                => pay'[c].pc \in {"done", "idle"}]_vars

\* a user who does not own a pending payment asked to confirm it and was turned away
ConfirmOwnerOnlyWitness ==
    \E c \in PayCalls :
        /\ pay[c].entry = "confirm" /\ pay[c].pc = "done" /\ pay[c].result = "False"
        /\ pay[c].caller # PayUser(pay[c].p)
        /\ payments[pay[c].p] = "pending"

(***************************************************************************)
(* C25  GPU counter crash recovery: after a worker crashed or a marker     *)
(* expired while a GPU slot was held, gpu:active_jobs is eventually        *)
(* rebuilt to the number of live gpu:job:* markers; the counter does not   *)
(* stay at the cap for ever with no live marker.                           *)
(***************************************************************************)
LiveMarkers == Cardinality(gpu_job)

StaleCounter == gpu_active_jobs >= MAX_GPU_JOBS /\ LiveMarkers = 0

GpuCounterRecovery ==
    StaleCounter ~> (gpu_active_jobs = LiveMarkers)

(***************************************************************************)
(* C26  Stuck-task reaper: a task of a non-admin user left in PROCESSING   *)
(* by a worker that crashed is eventually set to FAILED and refunded; it   *)
(* does not stay PROCESSING with its debit kept.                           *)
(***************************************************************************)
Orphaned(t) ==
    /\ task[t] = "processing"
    /\ \A w \in Workers : wrk[w].task # t

Reaped(t) == task[t] = "failed" /\ RowCount(ledger, "refund", RefundRef(t)) = 1

StuckTaskReaped ==
    \A t \in Tasks :
        (Orphaned(t) /\ Owner(t) \in Users \ ADMIN_IDS) ~> Reaped(t)

(***************************************************************************)
(* C27  Refund idempotence: for any request id the ledger never holds more *)
(* than one row with reason refund and reference "refund_" + id; the       *)
(* commit of a refund whose row already exists fails on the unique index   *)
(* and leaves every balance and the ledger as they were.                   *)
(***************************************************************************)
RefundCommits(t) ==
    /\ txn[t].kind = "refund" /\ txn[t].pc = "commit"
    /\ txn'[t].pc = "done"

RefundIdempotence ==
    [][/\ \A r \in RequestIds : RowCount(ledger', "refund", RefundRef(r)) <= 1
       /\ \A t \in Txns :
             (RefundCommits(t) /\ RowCount(ledger, "refund", RefundRef(txn[t].r)) = 1)
                => /\ txn'[t].result = "IntegrityError"
                   /\ UNCHANGED <<balance, ledger>>]_vars

\* two refunds of one request id ran: the first committed its row, the second failed
RefundIdempotenceWitness ==
    \E t1, t2 \in Txns :
        /\ txn[t1].kind = "refund" /\ txn[t2].kind = "refund" /\ txn[t1].r = txn[t2].r
        /\ txn[t1].pc = "done" /\ txn[t1].result = "ok"
        /\ txn[t2].pc = "done" /\ txn[t2].result = "IntegrityError"
        /\ RowCount(ledger, "refund", RefundRef(txn[t1].r)) = 1

(***************************************************************************)
(* C28  Admin bypass: for a job of an administrator no ledger row is ever  *)
(* written for its request id, neither a debit at admission nor a refund   *)
(* on rejection, failure or cancel, and no step changes the                *)
(* administrator's balance.                                                *)
(***************************************************************************)
AdminBypass ==
    [][\A t \in Tasks :
          owner'[t] \in ADMIN_IDS
             => /\ RowCount(ledger', "pro", DebitRef(t)) = 0
                /\ RowCount(ledger', "refund", RefundRef(t)) = 0
                /\ balance'[owner'[t]] = balance[owner'[t]]]_vars

\* an administrator's job was cancelled while queued, and the cancel handler is through
\* with refund_if_needed
AdminBypassWitness ==
    \E t \in Tasks :
        /\ Owner(t) \in ADMIN_IDS
        /\ task[t] = "cancelled" /\ cp_cancelled[t] = "no"
        /\ Settled(t)
        /\ adm[t].outcome = "Admitted"

(***************************************************************************)
(* C29  Worker containment: when the backend call of a task raised or      *)
(* returned no result, the worker sets the task to FAILED, the refund of   *)
(* a non-admin user's task is in the ledger, and the worker goes on to     *)
(* release the lock and the GPU slot and to the next iteration of its      *)
(* loop.                                                                   *)
(***************************************************************************)
FailureHandled(w) ==
    /\ wrk[w].pc = "set_failed" /\ wrk[w].result \in {"error", "empty"}
    /\ wrk'[w].pc # "set_failed"

\* past the handlers the worker only releases the lock and the slot and polls again
ContainedInLoop(w) ==
    wrk[w].pc \in {"release_lock", "release_gpu"}
       => wrk'[w].pc \in {"release_lock", "release_gpu", "idle"}

WorkerContainment ==
    [][\A w \in Workers :
          /\ ContainedInLoop(w)
          /\ FailureHandled(w)
                => /\ task'[wrk[w].task] = "failed"
                   /\ wrk'[w].pc = "release_lock"
                   /\ Owner(wrk[w].task) \notin ADMIN_IDS
                         => RowCount(ledger', "refund", RefundRef(wrk[w].task)) = 1]_vars

(***************************************************************************)
(* C30  No loss on store failure during dequeue: when the store fails in   *)
(* dequeue_task, every task that was in task_queue or in the hands of a    *)
(* worker still is: either the id was not popped, or the worker that       *)
(* popped it still holds it.                                               *)
(***************************************************************************)
DequeueFails(w) ==
    /\ budget'.error < budget.error
    /\ wrk[w].pc \in {"idle", "deq_decr"} /\ wrk'[w].pc = "idle"
    /\ adm' = adm
    /\ \A o \in Workers \ {w} : wrk'[o] = wrk[o]

NoLossOnDequeueFailure ==
    [][\A w \in Workers :
          DequeueFails(w) => \A t \in Tasks : Pending(t) => Pending(t)']_vars

(***************************************************************************)
(* C31  Release on every exit: when a worker finishes with a task for      *)
(* which it had acquired a GPU slot (after success, failure, a             *)
(* cancellation seen at a checkpoint, or an exception of                   *)
(* set_task_status(PROCESSING)), the task's GPU marker is gone and the     *)
(* owner's active lock no longer names the task.                           *)
(***************************************************************************)
FinishesHeldTask(w) ==
    /\ wrk[w].task # NoTask /\ wrk[w].slot = "held"
    /\ wrk'[w].pc = "idle"

ReleaseOnEveryExit ==
    [][\A w \in Workers :
          FinishesHeldTask(w)
             => /\ wrk[w].task \notin gpu_job'
                /\ active_gen'[Owner(wrk[w].task)] # wrk[w].task]_vars

(***************************************************************************)
(* C32  Admission gate order: the per-user queue slot is tried before the  *)
(* global queue cap, so a request is rejected with GlobalQueueFull only    *)
(* when its user is below the per-user cap; a user at the per-user cap     *)
(* facing a full global queue gets UserQueueFull.                          *)
(***************************************************************************)
RejectedGlobalQueueFull(t) ==
    /\ adm[t].outcome # "GlobalQueueFull"
    /\ adm'[t].outcome = "GlobalQueueFull"

AtUserQueueCap(u) == user_queue_count[u] >= MAX_QUEUED_TASKS_PER_USER

AdmissionGateOrder ==
    [][\A t \in Tasks : RejectedGlobalQueueFull(t) => ~AtUserQueueCap(Owner(t))]_vars

(***************************************************************************)
(* C33  Cancel no-op: when cancel_task and cancel_processing_task both     *)
(* returned False for the user's current task, which is COMPLETED, FAILED  *)
(* or CANCELLED, the cancel handler leaves                                 *)
(* the active lock, the per-user counter, the queue, the task records, the *)
(* GPU slots and the ledger unchanged.                                     *)
(***************************************************************************)
Terminal(t) == task[t] \in {"completed", "failed", "cancelled"}

CancelNoOpEnds(u) ==
    /\ can[u].pc = "release_noop" /\ Terminal(can[u].task)
    /\ can'[u].pc = "idle"

CancelNoOp ==
    [][\A u \in Users :
          CancelNoOpEnds(u)
             => UNCHANGED <<active_gen, user_queue_count, task_queue, task, gpu_active_jobs,
                            gpu_job, ledger, balance>>]_vars
(***************************************************************************)
(* C34  Webhook trusts only the verified value: whether a notification     *)
(* grants credits does not depend on the amount and currency of its body.  *)
(* Two webhook calls for the same payment id that got the same answer of   *)
(* the provider's verify call, an answer without an amount included, and   *)
(* found the payment in the same status end with the same result, however  *)
(* their bodies differ.                                                    *)
(***************************************************************************)
\* two finished webhook calls that differ at most in the amount of the body
SameButBody(c1, c2) ==
    /\ pay[c1].pc = "done" /\ pay[c1].entry = "webhook"
    /\ pay[c2].pc = "done" /\ pay[c2].entry = "webhook"
    /\ pay[c1].p = pay[c2].p
    /\ pay[c1].verified = pay[c2].verified
    /\ pay[c1].seen = pay[c2].seen

WebhookBodyIndependence ==
    \A c1, c2 \in PayCalls : SameButBody(c1, c2) => pay[c1].result = pay[c2].result

(***************************************************************************)
(* C35  Per-user counter accuracy: in every state where no enqueue, no     *)
(* dequeue and no cancel is under way, user_queue_count:{user} equals the  *)
(* number of ids of that user's tasks in task_queue, also after a cancel   *)
(* that landed between the pop of its task and the write of PROCESSING.    *)
(* The counter key has no ttl here, and the runs in which the store raised *)
(* an error are left out.                                                  *)
(***************************************************************************)
\* the ids of u's tasks waiting in task_queue
QueuedOf(u) == Cardinality({i \in 1..Len(task_queue) : Owner(task_queue[i]) = u})

\* no enqueue_task, dequeue_task or cancel handler is between two of its commands
NoQueueCallInFlight ==
    /\ \A t \in Tasks : adm[t].pc \in {"new", "done"}
    /\ \A w \in Workers : wrk[w].pc \notin {"deq_decr", "deq_del"}
    /\ \A u \in Users : can[u].pc = "idle"

NoStoreErrorYet == budget.error = MaxStoreErrors

CounterAccuracy ==
    (NoQueueCallInFlight /\ NoStoreErrorYet)
       => \A u \in Users : user_queue_count[u] = QueuedOf(u)

(***************************************************************************)
(* C36  Lock ownership on release: a release of active_gen:{user} done on  *)
(* behalf of task T, by the finally block of the worker that ran T or by   *)
(* the cancel handler that read T as the active task, never deletes a lock *)
(* whose stored value is the id of another task.                           *)
(***************************************************************************)
\* this step is release_generation_lock of _process_image_task's finally block for t
WorkerReleasesFor(t) ==
    \E w \in Workers :
        /\ wrk[w].task = t
        /\ wrk[w].pc = "release_lock" /\ wrk'[w].pc = "release_gpu"

\* this step is release_generation_lock of _do_cancel, which had read t as the active task
CancelReleasesFor(t) ==
    /\ Owner(t) \in Users
    /\ can[Owner(t)].task = t
    /\ can[Owner(t)].pc \in {"release", "release_queued", "release_noop"}
    /\ can'[Owner(t)].pc = "idle"

LockOwnershipOnRelease ==
    [][\A t \in Tasks :
          (WorkerReleasesFor(t) \/ CancelReleasesFor(t))
             => active_gen[Owner(t)] \in {NoTask, t}]_vars

(***************************************************************************)
(* C37  No free job: for a user who is not an admin, every task whose      *)
(* result was delivered has its debit row and no refund row, also when the *)
(* user's cancel interleaves with the worker between the pop of the task   *)
(* and the write of PROCESSING.                                            *)
(***************************************************************************)
NoFreeJob ==
    \A t \in Tasks :
        (t \in delivered /\ Owner(t) \notin ADMIN_IDS)
           => /\ RowCount(ledger, "pro", DebitRef(t)) = 1
              /\ RowCount(ledger, "refund", RefundRef(t)) = 0

(***************************************************************************)
(* C38  Sweeper atomicity: with cleanup_stale_gpu_jobs running beside      *)
(* acquire_gpu_slot and release_gpu_slot, gpu:active_jobs is never lower   *)
(* than the number of live gpu:job:* markers, and never more than          *)
(* MAX_GPU_JOBS workers hold a slot at the same time.                      *)
(***************************************************************************)
\* the workers that acquire_gpu_slot let through and that have not yet released
Holders == {w \in Workers : wrk[w].slot = "held"}

SweeperAtomicity ==
    /\ gpu_active_jobs >= Cardinality(gpu_job)
    /\ Cardinality(Holders) <= MAX_GPU_JOBS

(***************************************************************************)
(* C39  Single successful cancel: for any task, across the cancel requests *)
(* handled concurrently, cancel_task returns True at most once: no two     *)
(* handlers are past the status check of cancel_task for the same task,    *)
(* each on its way to the decrement of the counter and to the refund.      *)
(***************************************************************************)
\* cancel_task(t) of handler c has read QUEUED and returns, or has returned, True
CancelTaskSucceeds(c, t) == can[c].task = t /\ can[c].pc \in QueuedCancelPath

SingleSuccessfulCancel ==
    \A t \in Tasks : \A c1, c2 \in Users :
        (CancelTaskSucceeds(c1, t) /\ CancelTaskSucceeds(c2, t)) => c1 = c2

(***************************************************************************)
(* C40  Album flushed at most once: among the flush tasks started for the  *)
(* photos of one album at most one passes the process lock and submits a   *)
(* generation, so that the album is admitted and debited at most once,     *)
(* whenever its photos arrive.                                             *)
(***************************************************************************)
\* the debit rows written for the requests of the album
AlbumDebits(tasks) ==
    Cardinality({t \in tasks : RowCount(ledger, "pro", DebitRef(t)) > 0})

AlbumFlushedOnce ==
    /\ Cardinality(AlbumTasks) <= 1
    /\ AlbumDebits(AlbumTasks) <= 1

====
